---- MODULE Spec2Model ----
(***************************************************************************)
(* A model of the dialect translation and validation engine of            *)
(* snowflake-localhost:                                                    *)
(*   - SnowflakeToPostgreSQLTranslator (app/snowflake_proxy/               *)
(*     sql_translator.py): the rewrite pipeline of translate();            *)
(*   - SnowflakeParser (app/snowflake_proxy/sql_parser.py): validate_sql   *)
(*     and the CREATE TABLE grammar it hands to an LALR parser.            *)
(* A text is a sequence of one-character strings, so that upper-casing,    *)
(* word boundaries, substring replacement and tokenisation are computed    *)
(* character by character, as Python's str and re compute them.            *)
(***************************************************************************)
EXTENDS Integers, Sequences, FiniteSets, TLC

VARIABLES
    pc,              \* position of the call in progress ("idle" when none)
    query,           \* translate: the working copy of the query
    original_query,  \* translate: the query as the caller gave it
    debug,           \* translate: the debug flag of the call
    emitted,         \* records handed to the module's logger by the call
    stdout,          \* lines print()ed by the call (debug trace)
    result,          \* the value the call returned, or NoResult
    sql,             \* validate_sql: the statement (stripped once past strip)
    raised,          \* the exception the call raised, or "none"
    parse_calls,     \* number of times the call invoked parser.parse
    connections,       \* handler: connection id -> the open backend connection
    connection_params, \* handler: connection id -> the parameters it was asked with
    uuids,             \* number of connection ids uuid4 has generated
    open_cursors,      \* backend cursors that were opened and not closed
    handled,           \* the last handler call: what it was and how it ended
    backend_did,       \* the last thing the backend was asked and what it did
    app_pc,            \* /v1/query: position of the request being handled
    request,           \* /v1/query: the JSON body of that request
    app_translated,    \* /v1/query: translated_query, the text translate returned
    response,          \* the response to the last request
    client_connection_id, \* client: self.connection_id (NoConnection when None)
    client_pc,            \* client: position of the client's call in progress
    client_did,           \* client: its last step and the requests the step sent
    sql_translator,       \* the shared translator: the lexicons of the instance
    thread,               \* thread -> the locals of the translate call it runs
    written               \* the records and lines the threads' calls have written

\* the state of a translate or validate_sql call
call_vars == <<pc, query, original_query, debug, emitted, stdout, result,
               sql, raised, parse_calls>>

\* the state of the connection handler
handler_vars == <<connections, connection_params, uuids, open_cursors, handled,
                  backend_did>>

\* the state of the proxy service around the translator
\* the state of the HTTP endpoints
app_vars == <<app_pc, request, app_translated, response>>

\* the state of a SnowflakeLocalClient
client_vars == <<client_connection_id, client_pc, client_did>>

\* the state of the callers of the service
\* the state of the threads that call translate on the shared translator
thread_vars == <<sql_translator, thread, written>>

outer_vars == <<client_vars, thread_vars>>

service_vars == <<handler_vars, app_vars, outer_vars>>

vars == <<call_vars, service_vars>>

----------------------------------------------------------------------------
(* Characters and the character classes of Python's re (ASCII range).      *)

LowerLetters == {"a","b","c","d","e","f","g","h","i","j","k","l","m",
                 "n","o","p","q","r","s","t","u","v","w","x","y","z"}

UpperLetters == {"A","B","C","D","E","F","G","H","I","J","K","L","M",
                 "N","O","P","Q","R","S","T","U","V","W","X","Y","Z"}

DigitChars == {"0","1","2","3","4","5","6","7","8","9"}

ToUpper ==
    ("a" :> "A") @@ ("b" :> "B") @@ ("c" :> "C") @@ ("d" :> "D") @@
    ("e" :> "E") @@ ("f" :> "F") @@ ("g" :> "G") @@ ("h" :> "H") @@
    ("i" :> "I") @@ ("j" :> "J") @@ ("k" :> "K") @@ ("l" :> "L") @@
    ("m" :> "M") @@ ("n" :> "N") @@ ("o" :> "O") @@ ("p" :> "P") @@
    ("q" :> "Q") @@ ("r" :> "R") @@ ("s" :> "S") @@ ("t" :> "T") @@
    ("u" :> "U") @@ ("v" :> "V") @@ ("w" :> "W") @@ ("x" :> "X") @@
    ("y" :> "Y") @@ ("z" :> "Z")

\* str.upper() on one character
upper_char(c) == IF c \in LowerLetters THEN ToUpper[c] ELSE c

\* the text as it is written
AsWritten(s) == s

\* str.upper()
upper(s) == [i \in 1..Len(s) |-> upper_char(s[i])]

\* re: \w
WordChars == LowerLetters \cup UpperLetters \cup DigitChars \cup {"_"}

IsWordChar(c) == c \in WordChars

\* re: \s
IsSpaceChar(c) == c \in {" ", "\n", "\t"}

\* re: \d
IsDigitChar(c) == c \in DigitChars

\* re: \b before position i of s (1 <= i <= Len(s)+1)
WordBoundary(s, i) ==
    LET before == i > 1 /\ IsWordChar(s[i-1])
        after  == i <= Len(s) /\ IsWordChar(s[i])
    IN  before # after

\* the literal lit stands in s at position i; ci: compared ignoring case
LitAt(lit, s, i, ci) ==
    /\ i >= 1
    /\ i + Len(lit) - 1 <= Len(s)
    /\ \A k \in 1..Len(lit) :
          \/ s[i+k-1] = lit[k]
          \/ ci /\ upper_char(s[i+k-1]) = upper_char(lit[k])

\* greedy \w+, \s+, \d+ from position i: the position after the run
RECURSIVE WordRunEnd(_,_)
WordRunEnd(s, i) ==
    IF i <= Len(s) /\ IsWordChar(s[i]) THEN WordRunEnd(s, i+1) ELSE i

RECURSIVE SpaceRunEnd(_,_)
SpaceRunEnd(s, i) ==
    IF i <= Len(s) /\ IsSpaceChar(s[i]) THEN SpaceRunEnd(s, i+1) ELSE i

RECURSIVE DigitRunEnd(_,_)
DigitRunEnd(s, i) ==
    IF i <= Len(s) /\ IsDigitChar(s[i]) THEN DigitRunEnd(s, i+1) ELSE i

\* s[i..j-1]
Slice(s, i, j) == SubSeq(s, i, j-1)

\* "lit in s"
Contains(s, lit) == \E i \in 1..Len(s) : LitAt(lit, s, i, FALSE)

(* re.sub(pattern, repl, s): the leftmost match is replaced, the scan goes *)
(* on after it. MatchEnd(s, i) is the position after the match of the      *)
(* pattern at i, or 0 when it does not match there; Repl(s, i, e) is the   *)
(* replacement of the match s[i..e-1]. No pattern here matches the empty   *)
(* string.                                                                 *)
\* the leftmost position >= i where the pattern matches, or 0
NextMatch(MatchEnd(_,_), s, i) ==
    LET found == {j \in i..Len(s) : MatchEnd(s, j) > j}
    IN  IF found = {} THEN 0
        ELSE CHOOSE j \in found : \A k \in found : j <= k

RECURSIVE ReSubFrom(_,_,_,_)
ReSubFrom(MatchEnd(_,_), Repl(_,_,_), s, i) ==
    LET j == NextMatch(MatchEnd, s, i)
    IN  IF j = 0 THEN Slice(s, i, Len(s) + 1)
        ELSE Slice(s, i, j) \o Repl(s, j, MatchEnd(s, j))
                 \o ReSubFrom(MatchEnd, Repl, s, MatchEnd(s, j))

\* str.replace(old, new): the same scan with an exact literal
str_replace(s, old, new) ==
    ReSubFrom(LAMBDA t, i : IF LitAt(old, t, i, FALSE) THEN i + Len(old) ELSE 0,
              LAMBDA t, i, e : new, s, 1)

----------------------------------------------------------------------------
(* The lexicons, in the insertion order the passes iterate them in.        *)

data_type_mappings == <<
    <<<<"N","U","M","B","E","R">>, <<"N","U","M","E","R","I","C">>>>,
    <<<<"D","E","C","I","M","A","L">>, <<"N","U","M","E","R","I","C">>>>,
    <<<<"I","N","T">>, <<"I","N","T","E","G","E","R">>>>,
    <<<<"I","N","T","E","G","E","R">>, <<"I","N","T","E","G","E","R">>>>,
    <<<<"B","I","G","I","N","T">>, <<"B","I","G","I","N","T">>>>,
    <<<<"S","M","A","L","L","I","N","T">>, <<"S","M","A","L","L","I","N","T">>>>,
    <<<<"F","L","O","A","T">>, <<"R","E","A","L">>>>,
    <<<<"F","L","O","A","T","4">>, <<"R","E","A","L">>>>,
    <<<<"F","L","O","A","T","8">>, <<"D","O","U","B","L","E"," ","P","R","E","C","I","S","I","O","N">>>>,
    <<<<"D","O","U","B","L","E">>, <<"D","O","U","B","L","E"," ","P","R","E","C","I","S","I","O","N">>>>,
    <<<<"R","E","A","L">>, <<"R","E","A","L">>>>,
    <<<<"V","A","R","C","H","A","R">>, <<"V","A","R","C","H","A","R">>>>,
    <<<<"S","T","R","I","N","G">>, <<"T","E","X","T">>>>,
    <<<<"T","E","X","T">>, <<"T","E","X","T">>>>,
    <<<<"C","H","A","R">>, <<"C","H","A","R">>>>,
    <<<<"C","H","A","R","A","C","T","E","R">>, <<"C","H","A","R">>>>,
    <<<<"B","O","O","L","E","A","N">>, <<"B","O","O","L","E","A","N">>>>,
    <<<<"B","O","O","L">>, <<"B","O","O","L","E","A","N">>>>,
    <<<<"D","A","T","E">>, <<"D","A","T","E">>>>,
    <<<<"T","I","M","E">>, <<"T","I","M","E">>>>,
    <<<<"T","I","M","E","S","T","A","M","P">>, <<"T","I","M","E","S","T","A","M","P">>>>,
    <<<<"T","I","M","E","S","T","A","M","P","_","N","T","Z">>, <<"T","I","M","E","S","T","A","M","P">>>>,
    <<<<"T","I","M","E","S","T","A","M","P","_","L","T","Z">>, <<"T","I","M","E","S","T","A","M","P"," ","W","I","T","H"," ","T","I","M","E"," ","Z","O","N","E">>>>,
    <<<<"T","I","M","E","S","T","A","M","P","_","T","Z">>, <<"T","I","M","E","S","T","A","M","P"," ","W","I","T","H"," ","T","I","M","E"," ","Z","O","N","E">>>>,
    <<<<"B","I","N","A","R","Y">>, <<"B","Y","T","E","A">>>>,
    <<<<"V","A","R","B","I","N","A","R","Y">>, <<"B","Y","T","E","A">>>>,
    <<<<"V","A","R","I","A","N","T">>, <<"J","S","O","N","B">>>>,
    <<<<"O","B","J","E","C","T">>, <<"J","S","O","N","B">>>>,
    <<<<"A","R","R","A","Y">>, <<"J","S","O","N","B">>>> >>

function_mappings == <<
    <<<<"C","U","R","R","E","N","T","_","T","I","M","E","S","T","A","M","P","(",")">>, <<"C","U","R","R","E","N","T","_","T","I","M","E","S","T","A","M","P">>>>,
    <<<<"C","U","R","R","E","N","T","_","D","A","T","E","(",")">>, <<"C","U","R","R","E","N","T","_","D","A","T","E">>>>,
    <<<<"C","U","R","R","E","N","T","_","T","I","M","E","(",")">>, <<"C","U","R","R","E","N","T","_","T","I","M","E">>>>,
    <<<<"S","Y","S","D","A","T","E","(",")">>, <<"C","U","R","R","E","N","T","_","D","A","T","E">>>>,
    <<<<"S","Y","S","T","I","M","E","S","T","A","M","P","(",")">>, <<"C","U","R","R","E","N","T","_","T","I","M","E","S","T","A","M","P">>>>,
    <<<<"U","U","I","D","_","S","T","R","I","N","G","(",")">>, <<"g","e","n","_","r","a","n","d","o","m","_","u","u","i","d","(",")">>>>,
    <<<<"R","A","N","D","O","M","(",")">>, <<"r","a","n","d","o","m","(",")">>>>,
    <<<<"S","E","Q","U","E","N","C","E",".","N","E","X","T","V","A","L">>, <<"n","e","x","t","v","a","l","(","'","s","e","q","u","e","n","c","e","_","n","a","m","e","'",")">>>>,
    <<<<"S","E","Q",".","N","E","X","T","V","A","L">>, <<"n","e","x","t","v","a","l","(","'","s","e","q","u","e","n","c","e","_","n","a","m","e","'",")">>>> >>

----------------------------------------------------------------------------
(* The rewrite passes.                                                     *)

\* F applied to the value of v
Let(v, F(_)) == CHOOSE r \in {F(b) : b \in {v}} : TRUE

\* re.sub(snowflake_type, pg_type, query, flags=re.IGNORECASE): a pattern
\* without the word boundaries
SubTypeAnywhere(q, snowflake_type, pg_type) ==
    ReSubFrom(LAMBDA t, i :
                  IF LitAt(snowflake_type, t, i, TRUE)
                  THEN i + Len(snowflake_type) ELSE 0,
              LAMBDA t, i, e : pg_type, q, 1)

\* re.sub(rf"\b{snowflake_type}\b", pg_type, query, flags=re.IGNORECASE)
SubType(q, snowflake_type, pg_type) ==
    ReSubFrom(LAMBDA t, i :
                  IF /\ LitAt(snowflake_type, t, i, TRUE)
                     /\ WordBoundary(t, i)
                     /\ WordBoundary(t, i + Len(snowflake_type))
                  THEN i + Len(snowflake_type) ELSE 0,
              LAMBDA t, i, e : pg_type, q, 1)

\* the first n entries of data_type_mappings applied in order
RECURSIVE TypesUpTo(_,_)
TypesUpTo(q, n) ==
    IF n = 0 THEN q
    ELSE Let(TypesUpTo(q, n-1),
             LAMBDA t : SubType(t, data_type_mappings[n][1], data_type_mappings[n][2]))

_translate_data_types(q) == TypesUpTo(q, Len(data_type_mappings))

\* the first n entries of function_mappings applied in order
RECURSIVE FunctionsUpTo(_,_)
FunctionsUpTo(q, n) ==
    IF n = 0 THEN q
    ELSE Let(FunctionsUpTo(q, n-1),
             LAMBDA t : str_replace(t, function_mappings[n][1], function_mappings[n][2]))

_translate_functions(q) == FunctionsUpTo(q, Len(function_mappings))

\* r"(\w+)\.(\w+)" at position i: a pattern that takes two-part names too
TwoPartEnd(t, i) ==
    LET a == WordRunEnd(t, i)
    IN  IF a > i /\ a <= Len(t) /\ t[a] = "."
        THEN LET b == WordRunEnd(t, a+1) IN IF b > a+1 THEN b ELSE 0
        ELSE 0

\* r"(\w+)\.(\w+)\.(\w+)" at position i: the position after it, or 0
ThreePartEnd(t, i) ==
    LET a == WordRunEnd(t, i)
    IN  IF a > i /\ a <= Len(t) /\ t[a] = "."
        THEN LET b == WordRunEnd(t, a+1)
             IN  IF b > a+1 /\ b <= Len(t) /\ t[b] = "."
                 THEN LET c == WordRunEnd(t, b+1)
                      IN  IF c > b+1 THEN c ELSE 0
                 ELSE 0
        ELSE 0

\* re.sub(r"(\w+)\.(\w+)\.(\w+)", r"\2.\3", query)
_translate_identifiers(q) ==
    ReSubFrom(ThreePartEnd,
              LAMBDA t, i, e : Slice(t, WordRunEnd(t, i) + 1, e),
              q, 1)

\* r"\b<keyword>\b" at position i: a pattern that takes the keyword alone
ClauseKeywordEnd(keyword, t, i) ==
    IF /\ LitAt(keyword, t, i, TRUE) /\ WordBoundary(t, i)
       /\ WordBoundary(t, i + Len(keyword))
    THEN i + Len(keyword) ELSE 0

\* r"\b<keyword>\s+\w+" at position i (IGNORECASE): the position after it, or 0
ClauseEnd(keyword, t, i) ==
    IF LitAt(keyword, t, i, TRUE) /\ WordBoundary(t, i)
    THEN LET a == i + Len(keyword)
             b == SpaceRunEnd(t, a)
             c == WordRunEnd(t, b)
         IN  IF b > a /\ c > b THEN c ELSE 0
    ELSE 0

\* re.sub(r"\bWAREHOUSE\s+\w+", "", query, flags=re.IGNORECASE)
DropWarehouse(q) ==
    ReSubFrom(LAMBDA t, i : ClauseEnd(<<"W","A","R","E","H","O","U","S","E">>, t, i),
              LAMBDA t, i, e : <<>>, q, 1)

\* a drop of the keyword ACCOUNT, whatever follows it
DropAccountKeyword(q) ==
    ReSubFrom(LAMBDA t, i : ClauseKeywordEnd(<<"A","C","C","O","U","N","T">>, t, i),
              LAMBDA t, i, e : <<>>, q, 1)

\* re.sub(r"\bACCOUNT\s+\w+", "", query, flags=re.IGNORECASE)
DropAccount(q) ==
    ReSubFrom(LAMBDA t, i : ClauseEnd(<<"A","C","C","O","U","N","T">>, t, i),
              LAMBDA t, i, e : <<>>, q, 1)

\* r"\bTOP\s+(\d+)" at position i (IGNORECASE): the position after it, or 0
TopEnd(t, i) ==
    IF LitAt(<<"T","O","P">>, t, i, TRUE) /\ WordBoundary(t, i)
    THEN LET a == i + 3
             b == SpaceRunEnd(t, a)
             c == DigitRunEnd(t, b)
         IN  IF b > a /\ c > b THEN c ELSE 0
    ELSE 0

\* a rewrite that moves the first TOP <n> to the end of the text as LIMIT <n>
TopToLimitAtEnd(q) ==
    LET j == NextMatch(TopEnd, q, 1)
        e == TopEnd(q, j)
    IN  IF j = 0 THEN q
        ELSE Slice(q, 1, j) \o Slice(q, e, Len(q) + 1) \o <<" ","L","I","M","I","T"," ">>
                 \o Slice(q, SpaceRunEnd(q, j + 3), e)

\* re.sub(r"\bTOP\s+(\d+)", r"LIMIT \1", query, flags=re.IGNORECASE)
TopToLimit(q) ==
    ReSubFrom(TopEnd,
              LAMBDA t, i, e :
                  <<"L","I","M","I","T"," ">> \o Slice(t, DigitRunEnd(t, e) - (e - SpaceRunEnd(t, i+3)), e),
              q, 1)

\* a test that sees MERGE only as the first word of the query
MergeStatementDetected(q) == LitAt(<<"M","E","R","G","E">>, q, 1, FALSE)

\* the test of _translate_merge_syntax: "MERGE" in query
MergeDetected(q) == Contains(q, <<"M","E","R","G","E">>)

\* _translate_merge_syntax: the text it returns
_translate_merge_syntax(q) ==
    IF MergeDetected(q) THEN str_replace(q, <<"M","E","R","G","E">>, <<"I","N","S","E","R","T">>) ELSE q

\* the rules of the syntax pass run after a flattening of the qualified names
FlattenBeforeClauses(q) ==
    _translate_merge_syntax(TopToLimit(DropAccount(DropWarehouse(
        _translate_identifiers(q)))))

\* _translate_snowflake_specific_syntax: the text it returns
_translate_snowflake_specific_syntax(q) ==
    _translate_merge_syntax(TopToLimit(DropAccount(DropWarehouse(q))))

\* a restoration that gives a query no pass has changed its own letters back
RestoreWhenUnchanged(translated_query, original) ==
    IF upper(original) = translated_query THEN original ELSE translated_query

\* _restore_case returns the translated query as it is
_restore_case(translated_query, original) == translated_query

\* translate: the text it returns for the query q
TranslateOf(q) ==
    Let(_translate_data_types(upper(q)), LAMBDA typed :
    Let(_translate_functions(typed), LAMBDA called :
    Let(_translate_snowflake_specific_syntax(called), LAMBDA rewritten :
    Let(_translate_identifiers(rewritten), LAMBDA flattened :
        _restore_case(flattened, q)))))

----------------------------------------------------------------------------
(* The validator: SNOWFLAKE_CREATE_TABLE_GRAMMAR, as data, and the way     *)
(* Lark's LALR(1) parser with its contextual lexer reads a text with it.   *)
(* A rule's body is a grammar expression built from:                       *)
(*   Lit(w)    a quoted keyword in a parser state that accepts no          *)
(*             IDENTIFIER: a case-sensitive literal, matched as a prefix   *)
(*             of the rest of the text;                                    *)
(*   Kw(w)     a quoted keyword in a state that accepts IDENTIFIER too:    *)
(*             the lexer matches IDENTIFIER's pattern and the token is     *)
(*             the keyword only when the whole match is the keyword;       *)
(*   Ident(x)  IDENTIFIER in a state whose keywords are x (a word of x is  *)
(*             the keyword's token there, never an IDENTIFIER);            *)
(*   Term(n)   the terminals NUMBER, STRING, BOOLEAN and query's pattern;  *)
(*   Sq, Alt, Opt, Star   sequence, alternatives, ?, and *;                *)
(*   ShiftStar(c, x)  (c x)* where the grammar is not LALR(1): after x the *)
(*             token c could also end the list, Lark shifts, and the       *)
(*             parser is then bound to read another x;                     *)
(*   Rule(n)   the rule named n (for the rules that are recursive).        *)
(* Alternatives that are literals are listed in the order the lexer tries  *)
(* them in (the longer literal first).                                     *)

Lit(w) == [k |-> "lit", w |-> w]

Kw(w) == [k |-> "kw", w |-> w]

Ident(x) == [k |-> "ident", x |-> x]

Term(n) == [k |-> "term", n |-> n]

Sq(xs) == [k |-> "seq", xs |-> xs]

Alt(xs) == [k |-> "alt", xs |-> xs]

Opt(x) == [k |-> "opt", x |-> x]

Star(x) == [k |-> "star", x |-> x]

ShiftStar(c, x) == [k |-> "shift", c |-> c, x |-> x]

Rule(n) == [k |-> "rule", n |-> n]

\* IDENTIFIER where no keyword is accepted beside it
IDENTIFIER == Ident({})

\* or_replace: "OR" "REPLACE"
or_replace == Sq(<<Lit(<<"O","R">>), Lit(<<"R","E","P","L","A","C","E">>)>>)

\* table_type: ("LOCAL" | "GLOBAL")? ("TEMP" | "TEMPORARY" | "VOLATILE" | "TRANSIENT")
table_type ==
    Sq(<<Opt(Alt(<<Lit(<<"L","O","C","A","L">>), Lit(<<"G","L","O","B","A","L">>)>>)),
         Alt(<<Lit(<<"T","E","M","P","O","R","A","R","Y">>), Lit(<<"T","R","A","N","S","I","E","N","T">>), Lit(<<"V","O","L","A","T","I","L","E">>), Lit(<<"T","E","M","P">>)>>)>>)

\* if_not_exists: "IF" "NOT" "EXISTS"   (IF stands where table_name may)
if_not_exists == Sq(<<Kw(<<"I","F">>), Lit(<<"N","O","T">>), Lit(<<"E","X","I","S","T","S">>)>>)

\* table_name: IDENTIFIER ("." IDENTIFIER)*
\* first is its first IDENTIFIER, in the state the name starts in
table_name(first) == Sq(<<first, Star(Sq(<<Lit(<<".">>), IDENTIFIER>>))>>)

\* operator: "+" | "-" | "*" | "/" | "%"
operator ==
    Alt(<<Lit(<<"+">>), Lit(<<"-">>), Lit(<<"*">>), Lit(<<"/">>), Lit(<<"%">>)>>)

\* comp_operator: "=" | "!=" | "<>" | "<" | "<=" | ">" | ">="
comp_operator ==
    Alt(<<Lit(<<"!","=">>), Lit(<<"<",">">>), Lit(<<"<","=">>), Lit(<<">","=">>),
          Lit(<<"=">>), Lit(<<"<">>), Lit(<<">">>)>>)

\* function_call: IDENTIFIER "(" (expr ("," expr)*)? ")"
function_call ==
    Sq(<<Ident({<<"N","U","L","L">>}), Lit(<<"(">>),
         Opt(Sq(<<Rule("expr"), Star(Sq(<<Lit(<<",">>), Rule("expr")>>))>>)),
         Lit(<<")">>)>>)

\* column_ref: IDENTIFIER ("." IDENTIFIER)*
column_ref == Sq(<<Ident({<<"N","U","L","L">>}), Star(Sq(<<Lit(<<".">>), IDENTIFIER>>))>>)

\* literal: NUMBER | STRING | BOOLEAN | "NULL". Where an operand starts,
\* IDENTIFIER is accepted and its pattern is tried before BOOLEAN's, so
\* TRUE and FALSE are IDENTIFIER tokens there and NULL is a whole word.
literal == Alt(<<Term("NUMBER"), Term("STRING"), Kw(<<"N","U","L","L">>)>>)

\* one operand of expr: function_call | literal | column_ref | "(" expr ")"
operand ==
    Alt(<<Sq(<<Lit(<<"(">>), Rule("expr"), Lit(<<")">>)>>),
          literal, function_call, column_ref>>)

\* expr with arithmetic_expr: expr operator expr and
\* comparison_expr: expr comp_operator expr  (an operator after an operand is
\* shifted: it continues the expr)
expr == Sq(<<operand, Star(Sq(<<Alt(<<operator, comp_operator>>), operand>>))>>)

\* expr_list: expr ("," expr)*
expr_list == Sq(<<expr, Star(Sq(<<Lit(<<",">>), expr>>))>>)

\* column_name: IDENTIFIER
column_name == IDENTIFIER

\* data_type: IDENTIFIER ("(" (NUMBER | "MAX") ("," NUMBER)* ")")?
data_type ==
    Sq(<<IDENTIFIER,
         Opt(Sq(<<Lit(<<"(">>), Alt(<<Term("NUMBER"), Lit(<<"M","A","X">>)>>),
                  Star(Sq(<<Lit(<<",">>), Term("NUMBER")>>)), Lit(<<")">>)>>))>>)

\* constraint_type: "UNIQUE" | "PRIMARY" "KEY"
\*     | "FOREIGN" "KEY" "REFERENCES" table_name "(" column_list ")"
\*     | "CHECK" "(" expr ")"
\* first(w) is the first keyword: Kw right after CONSTRAINT, Lit after the name
constraint_type(first(_)) ==
    Alt(<<first(<<"U","N","I","Q","U","E">>),
          Sq(<<first(<<"P","R","I","M","A","R","Y">>), Lit(<<"K","E","Y">>)>>),
          Sq(<<first(<<"F","O","R","E","I","G","N">>), Lit(<<"K","E","Y">>), Lit(<<"R","E","F","E","R","E","N","C","E","S">>),
               table_name(IDENTIFIER),
               Lit(<<"(">>), Rule("column_list"), Lit(<<")">>)>>),
          Sq(<<first(<<"C","H","E","C","K">>), Lit(<<"(">>), expr, Lit(<<")">>)>>)>>)

\* the keywords accepted, beside IDENTIFIER, right after CONSTRAINT
ConstraintKeywords == {<<"U","N","I","Q","U","E">>, <<"P","R","I","M","A","R","Y">>, <<"F","O","R","E","I","G","N">>, <<"C","H","E","C","K">>}

\* inline_constraint: "CONSTRAINT" IDENTIFIER? constraint_type
inline_constraint ==
    Sq(<<Lit(<<"C","O","N","S","T","R","A","I","N","T">>),
         Alt(<<constraint_type(Kw),
               Sq(<<Ident(ConstraintKeywords), constraint_type(Lit)>>)>>)>>)

\* constraint: "CONSTRAINT" IDENTIFIER? constraint_type
constraint == inline_constraint

\* out_of_line_constraints: "," constraint ("," constraint)*
out_of_line_constraints ==
    Sq(<<Lit(<<",">>), constraint, Star(Sq(<<Lit(<<",">>), constraint>>))>>)

\* not_null: "NOT" "NULL"
not_null == Sq(<<Lit(<<"N","O","T">>), Lit(<<"N","U","L","L">>)>>)

\* collate: "COLLATE" STRING
collate == Sq(<<Lit(<<"C","O","L","L","A","T","E">>), Term("STRING")>>)

\* default_value: "DEFAULT" expr
default_value == Sq(<<Lit(<<"D","E","F","A","U","L","T">>), expr>>)

\* autoincrement: ("AUTOINCREMENT" | "IDENTITY")
\*     ("(" NUMBER "," NUMBER ")" | "START" NUMBER "INCREMENT" NUMBER)?
\*     ("ORDER" | "NOORDER")?
autoincrement ==
    Sq(<<Alt(<<Lit(<<"A","U","T","O","I","N","C","R","E","M","E","N","T">>), Lit(<<"I","D","E","N","T","I","T","Y">>)>>),
         Opt(Alt(<<Sq(<<Lit(<<"(">>), Term("NUMBER"), Lit(<<",">>),
                        Term("NUMBER"), Lit(<<")">>)>>),
                   Sq(<<Lit(<<"S","T","A","R","T">>), Term("NUMBER"),
                        Lit(<<"I","N","C","R","E","M","E","N","T">>), Term("NUMBER")>>)>>)),
         Opt(Alt(<<Lit(<<"N","O","O","R","D","E","R">>), Lit(<<"O","R","D","E","R">>)>>))>>)

\* "(" column_list ")"
ParenColumnList == Sq(<<Lit(<<"(">>), Rule("column_list"), Lit(<<")">>)>>)

\* masking_policy: "WITH"? "MASKING" "POLICY" IDENTIFIER ("USING" "(" column_list ")")?
masking_policy ==
    Sq(<<Opt(Lit(<<"W","I","T","H">>)), Lit(<<"M","A","S","K","I","N","G">>), Lit(<<"P","O","L","I","C","Y">>), IDENTIFIER,
         Opt(Sq(<<Lit(<<"U","S","I","N","G">>), ParenColumnList>>))>>)

\* projection_policy: "WITH"? "PROJECTION" "POLICY" IDENTIFIER
projection_policy ==
    Sq(<<Opt(Lit(<<"W","I","T","H">>)), Lit(<<"P","R","O","J","E","C","T","I","O","N">>), Lit(<<"P","O","L","I","C","Y">>), IDENTIFIER>>)

\* tag_item: IDENTIFIER "=" STRING
tag_item == Sq(<<IDENTIFIER, Lit(<<"=">>), Term("STRING")>>)

\* tag_list: tag_item ("," tag_item)*
tag_list == Sq(<<tag_item, Star(Sq(<<Lit(<<",">>), tag_item>>))>>)

\* tag: "WITH"? "TAG" "(" tag_list ")"
tag == Sq(<<Opt(Lit(<<"W","I","T","H">>)), Lit(<<"T","A","G">>), Lit(<<"(">>), tag_list, Lit(<<")">>)>>)

\* comment: "COMMENT" STRING
comment == Sq(<<Lit(<<"C","O","M","M","E","N","T">>), Term("STRING")>>)

\* column_options: inline_constraint | not_null | collate | default_value
\*     | autoincrement | masking_policy | projection_policy | tag | comment
column_options ==
    Alt(<<inline_constraint, not_null, collate, default_value, autoincrement,
          masking_policy, projection_policy, tag, comment>>)

\* column_def: column_name data_type column_options*
column_def == Sq(<<column_name, data_type, Star(column_options)>>)

\* column_list: column_def ("," column_def)*
column_list == Sq(<<column_def, ShiftStar(Lit(<<",">>), column_def)>>)

\* cluster_by: "CLUSTER" "BY" "(" expr_list ")"
cluster_by ==
    Sq(<<Lit(<<"C","L","U","S","T","E","R">>), Lit(<<"B","Y">>), Lit(<<"(">>), expr_list, Lit(<<")">>)>>)

\* schema_evolution: "ENABLE_SCHEMA_EVOLUTION" "=" BOOLEAN
schema_evolution ==
    Sq(<<Lit(<<"E","N","A","B","L","E","_","S","C","H","E","M","A","_","E","V","O","L","U","T","I","O","N">>), Lit(<<"=">>), Term("BOOLEAN")>>)

\* data_retention: "DATA_RETENTION_TIME_IN_DAYS" "=" NUMBER
data_retention ==
    Sq(<<Lit(<<"D","A","T","A","_","R","E","T","E","N","T","I","O","N","_","T","I","M","E","_","I","N","_","D","A","Y","S">>), Lit(<<"=">>), Term("NUMBER")>>)

\* data_extension: "MAX_DATA_EXTENSION_TIME_IN_DAYS" "=" NUMBER
data_extension ==
    Sq(<<Lit(<<"M","A","X","_","D","A","T","A","_","E","X","T","E","N","S","I","O","N","_","T","I","M","E","_","I","N","_","D","A","Y","S">>), Lit(<<"=">>), Term("NUMBER")>>)

\* change_tracking: "CHANGE_TRACKING" "=" BOOLEAN
change_tracking ==
    Sq(<<Lit(<<"C","H","A","N","G","E","_","T","R","A","C","K","I","N","G">>), Lit(<<"=">>), Term("BOOLEAN")>>)

\* ddl_collation: "DEFAULT_DDL_COLLATION" "=" STRING
ddl_collation ==
    Sq(<<Lit(<<"D","E","F","A","U","L","T","_","D","D","L","_","C","O","L","L","A","T","I","O","N">>), Lit(<<"=">>), Term("STRING")>>)

\* copy_grants: "COPY" "GRANTS"
copy_grants == Sq(<<Lit(<<"C","O","P","Y">>), Lit(<<"G","R","A","N","T","S">>)>>)

\* table_comment: "COMMENT" "=" STRING
table_comment == Sq(<<Lit(<<"C","O","M","M","E","N","T">>), Lit(<<"=">>), Term("STRING")>>)

\* row_access_policy: "WITH"? "ROW" "ACCESS" "POLICY" IDENTIFIER "ON" "(" column_list ")"
row_access_policy ==
    Sq(<<Opt(Lit(<<"W","I","T","H">>)), Lit(<<"R","O","W">>), Lit(<<"A","C","C","E","S","S">>), Lit(<<"P","O","L","I","C","Y">>),
         IDENTIFIER, Lit(<<"O","N">>), ParenColumnList>>)

\* aggregation_policy: "WITH"? "AGGREGATION" "POLICY" IDENTIFIER
\*     ("ENTITY" "KEY" "(" column_list ")")?
aggregation_policy ==
    Sq(<<Opt(Lit(<<"W","I","T","H">>)), Lit(<<"A","G","G","R","E","G","A","T","I","O","N">>), Lit(<<"P","O","L","I","C","Y">>), IDENTIFIER,
         Opt(Sq(<<Lit(<<"E","N","T","I","T","Y">>), Lit(<<"K","E","Y">>), ParenColumnList>>))>>)

\* join_policy: "WITH"? "JOIN" "POLICY" IDENTIFIER
\*     ("ALLOWED" "JOIN" "KEYS" "(" column_list ")")?
join_policy ==
    Sq(<<Opt(Lit(<<"W","I","T","H">>)), Lit(<<"J","O","I","N">>), Lit(<<"P","O","L","I","C","Y">>), IDENTIFIER,
         Opt(Sq(<<Lit(<<"A","L","L","O","W","E","D">>), Lit(<<"J","O","I","N">>), Lit(<<"K","E","Y","S">>), ParenColumnList>>))>>)

\* table_tag: "WITH"? "TAG" "(" tag_list ")"
table_tag == tag

\* contact_item: IDENTIFIER "=" IDENTIFIER
contact_item == Sq(<<IDENTIFIER, Lit(<<"=">>), IDENTIFIER>>)

\* contact_list: contact_item ("," contact_item)*
contact_list == Sq(<<contact_item, Star(Sq(<<Lit(<<",">>), contact_item>>))>>)

\* contact: "WITH" "CONTACT" "(" contact_list ")"
contact ==
    Sq(<<Lit(<<"W","I","T","H">>), Lit(<<"C","O","N","T","A","C","T">>), Lit(<<"(">>), contact_list, Lit(<<")">>)>>)

\* table_options: cluster_by | schema_evolution | data_retention | data_extension
\*     | change_tracking | ddl_collation | copy_grants | table_comment
\*     | row_access_policy | aggregation_policy | join_policy | table_tag | contact
table_options ==
    Alt(<<cluster_by, schema_evolution, data_retention, data_extension,
          change_tracking, ddl_collation, copy_grants, table_comment,
          row_access_policy, aggregation_policy, join_policy, table_tag, contact>>)

\* query: /SELECT .*/
query_ == Term("query")

\* column_clause: "(" column_list out_of_line_constraints? ")" table_options*
column_clause ==
    Sq(<<Lit(<<"(">>), column_list, Opt(out_of_line_constraints), Lit(<<")">>),
         Star(table_options)>>)

\* as_query: table_options* "AS" query
as_query == Sq(<<Star(table_options), Lit(<<"A","S">>), query_>>)

\* create_table_stmt: "CREATE" or_replace? table_type? "TABLE" if_not_exists?
\*     table_name (column_clause | as_query)
\* (after TABLE the word IF is the keyword; after EXISTS only a name can start)
create_table_stmt ==
    Sq(<<Lit(<<"C","R","E","A","T","E">>), Opt(or_replace), Opt(table_type), Lit(<<"T","A","B","L","E">>),
         Alt(<<Sq(<<if_not_exists, table_name(IDENTIFIER)>>),
               table_name(Ident({<<"I","F">>}))>>),
         Alt(<<column_clause, as_query>>)>>)

\* the recursive rules, by name
RuleBody(n) ==
    CASE n = "expr" -> expr
      [] n = "column_list" -> column_list

----------------------------------------------------------------------------
(* The lexer: every terminal is read at a position i of the text s and     *)
(* gives the position after its match, or 0 when it does not match there.  *)

\* common.WS, ignored
SkipWS(s, i) == SpaceRunEnd(s, i)

\* a quoted literal w of the grammar, as a prefix at the next token position
Tok(s, i, w) ==
    LET j == SkipWS(s, i)
    IN  IF LitAt(w, s, j, FALSE) THEN j + Len(w) ELSE 0

\* IDENTIFIER: /[a-zA-Z_][a-zA-Z0-9_]*/
IdentifierEnd(s, i) ==
    LET j == SkipWS(s, i)
    IN  IF j <= Len(s) /\ s[j] \in LowerLetters \cup UpperLetters \cup {"_"}
        THEN WordRunEnd(s, j) ELSE 0

\* the keyword w in a state that accepts IDENTIFIER too
KeywordToken(s, i, w) ==
    LET e == IdentifierEnd(s, i)
    IN  IF e > 0 /\ Slice(s, SkipWS(s, i), e) = w THEN e ELSE 0

\* IDENTIFIER in a state that accepts the keywords x too
IdentifierToken(s, i, x) ==
    LET e == IdentifierEnd(s, i)
    IN  IF e > 0 /\ Slice(s, SkipWS(s, i), e) \notin x THEN e ELSE 0

\* NUMBER: /-?[0-9]+(\.[0-9]+)?/
NUMBER(s, i) ==
    LET j == SkipWS(s, i)
        n == IF j <= Len(s) /\ s[j] = "-" THEN j + 1 ELSE j
        e == DigitRunEnd(s, n)
        f == IF e <= Len(s) /\ s[e] = "." THEN DigitRunEnd(s, e + 1) ELSE 0
    IN  IF e = n THEN 0 ELSE IF f > e + 1 THEN f ELSE e

\* /[^']*/ from position i: the position of the next quote, or Len(s)+1
RECURSIVE QuoteAt(_,_)
QuoteAt(s, i) == IF i <= Len(s) /\ s[i] # "'" THEN QuoteAt(s, i+1) ELSE i

\* STRING: /'[^']*'/
STRING_(s, i) ==
    LET j == SkipWS(s, i)
    IN  IF j <= Len(s) /\ s[j] = "'" /\ QuoteAt(s, j+1) <= Len(s)
        THEN QuoteAt(s, j+1) + 1 ELSE 0

\* BOOLEAN: "TRUE" | "FALSE"
BOOLEAN_(s, i) ==
    IF Tok(s, i, <<"T","R","U","E">>) > 0 THEN Tok(s, i, <<"T","R","U","E">>) ELSE Tok(s, i, <<"F","A","L","S","E">>)

\* /.*/ from position i: the position of the next line break, or Len(s)+1
RECURSIVE LineEnd(_,_)
LineEnd(s, i) == IF i <= Len(s) /\ s[i] # "\n" THEN LineEnd(s, i+1) ELSE i

\* /SELECT .*/
QueryPattern(s, i) ==
    LET e == Tok(s, i, <<"S","E","L","E","C","T"," ">>)
    IN  IF e = 0 THEN 0 ELSE LineEnd(s, e)

\* the terminal named n
Terminal(n, s, i) ==
    CASE n = "NUMBER"  -> NUMBER(s, i)
      [] n = "STRING"  -> STRING_(s, i)
      [] n = "BOOLEAN" -> BOOLEAN_(s, i)
      [] n = "query"   -> QueryPattern(s, i)

----------------------------------------------------------------------------
(* The parser: Match(x, s, i) is the position after the text that the      *)
(* grammar expression x consumes from position i of s; 0 when x does not   *)
(* match there; Stuck when the parser, bound to a shifted token, meets a   *)
(* token it cannot take (the parse is then over, whatever else the grammar *)
(* would have allowed).                                                    *)

Stuck == 0 - 1

RECURSIVE Match(_,_,_), MatchSq(_,_,_,_), MatchAlt(_,_,_,_)

\* xs[n], xs[n+1], ... one after the other
MatchSq(xs, n, s, i) ==
    IF n > Len(xs) THEN i
    ELSE LET r == Match(xs[n], s, i)
         IN  IF r <= 0 THEN r ELSE MatchSq(xs, n + 1, s, r)

\* the first of xs[n], xs[n+1], ... that matches
MatchAlt(xs, n, s, i) ==
    IF n > Len(xs) THEN 0
    ELSE LET r == Match(xs[n], s, i)
         IN  IF r # 0 THEN r ELSE MatchAlt(xs, n + 1, s, i)

Match(x, s, i) ==
    CASE x.k = "lit"   -> Tok(s, i, x.w)
      [] x.k = "kw"    -> KeywordToken(s, i, x.w)
      [] x.k = "ident" -> IdentifierToken(s, i, x.x)
      [] x.k = "term"  -> Terminal(x.n, s, i)
      [] x.k = "seq"   -> MatchSq(x.xs, 1, s, i)
      [] x.k = "alt"   -> MatchAlt(x.xs, 1, s, i)
      [] x.k = "opt"   ->
            LET r == Match(x.x, s, i) IN IF r = 0 THEN i ELSE r
      [] x.k = "star"  ->
            LET r == Match(x.x, s, i)
            IN  IF r = 0 THEN i ELSE IF r = Stuck THEN Stuck ELSE Match(x, s, r)
      [] x.k = "shift" ->
            LET c == Match(x.c, s, i)
                r == Match(x.x, s, c)
            IN  IF c <= 0 THEN i ELSE IF r <= 0 THEN Stuck ELSE Match(x, s, r)
      [] x.k = "rule"  -> Match(RuleBody(x.n), s, i)

\* a parse that stops where the start rule ends, whatever text follows
ParsesPrefix(s) == Match(create_table_stmt, s, 1) > 0

\* Lark.parse: the start rule matches the whole text (white space may follow)
Parses(s) ==
    LET e == Match(create_table_stmt, s, 1)
    IN  e > 0 /\ SkipWS(s, e) = Len(s) + 1

\* str.strip(): the positions of the first and the last character that stay
RECURSIVE StripEnd(_,_)
StripEnd(s, j) == IF j >= 1 /\ IsSpaceChar(s[j]) THEN StripEnd(s, j-1) ELSE j

strip(s) == Slice(s, SpaceRunEnd(s, 1), StripEnd(s, Len(s)) + 1)

\* str.startswith
startswith(s, prefix) == LitAt(prefix, s, 1, FALSE)

----------------------------------------------------------------------------
(* Bounded inputs.                                                         *)

\* a query is made of at most this many fragments
MaxFrags == 2

QueryFragments == {
    <<" ">>, <<"D","B",".","S",".","T">>, <<".","U">>, <<"W","A","R","E","H","O","U","S","E"," ">>, <<"A","C","C","O","U","N","T"," ">>, <<"m","e","r","g","e">>, <<"T","O","P"," ","1","0">>,
    <<"I","N","T">>, <<"F","L","O","A","T","8">>, <<"S","Y","S","D","A","T","E","(",")">> }

RECURSIVE TextsOf(_)
TextsOf(n) ==
    IF n = 0 THEN {<<>>}
    ELSE TextsOf(n-1) \cup {t \o f : t \in TextsOf(n-1), f \in QueryFragments}

\* the statements of the documented examples and of test_translation_only,
\* one statement for each lexicon entry the documentation lists, and two
\* statements written in lower case
DocumentedQueries == {
    <<"S","E","L","E","C","T"," ","T","O","P"," ","1","0"," ","*"," ","F","R","O","M"," ","t">>,
    <<"S","E","L","E","C","T"," ","T","O","P"," ","5"," ","*"," ","F","R","O","M"," ","t","a","b","l","e">>,
    <<"C","R","E","A","T","E"," ","T","A","B","L","E"," ","t","e","s","t"," ","(","i","d"," ","N","U","M","B","E","R",","," ","n","a","m","e"," ","V","A","R","C","H","A","R","(","2","5","5",")",","," ","a","m","o","u","n","t"," ","N","U","M","B","E","R","(","1","0",",","2",")",")">>,
    <<"S","E","L","E","C","T"," ","C","U","R","R","E","N","T","_","D","A","T","E","(",")",","," ","C","U","R","R","E","N","T","_","T","I","M","E","S","T","A","M","P","(",")">>,
    <<"s","e","l","e","c","t"," ","*"," ","f","r","o","m"," ","t">>,
    <<"s","e","l","e","c","t"," ","u","u","i","d","_","s","t","r","i","n","g","(",")">>,
    <<"c"," ","N","U","M","B","E","R">>,
    <<"c"," ","N","U","M","B","E","R","(","1","0",",","2",")">>,
    <<"c"," ","I","N","T">>,
    <<"c"," ","S","T","R","I","N","G">>,
    <<"c"," ","T","I","M","E","S","T","A","M","P","_","N","T","Z">>,
    <<"c"," ","T","I","M","E","S","T","A","M","P","_","L","T","Z">>,
    <<"c"," ","T","I","M","E","S","T","A","M","P","_","T","Z">>,
    <<"c"," ","V","A","R","I","A","N","T">>,
    <<"c"," ","O","B","J","E","C","T">>,
    <<"c"," ","A","R","R","A","Y">>,
    <<"c"," ","B","I","N","A","R","Y">>,
    <<"c"," ","V","A","R","B","I","N","A","R","Y">>,
    <<"S","E","L","E","C","T"," ","C","U","R","R","E","N","T","_","T","I","M","E","S","T","A","M","P","(",")">>,
    <<"S","E","L","E","C","T"," ","C","U","R","R","E","N","T","_","D","A","T","E","(",")">>,
    <<"S","E","L","E","C","T"," ","U","U","I","D","_","S","T","R","I","N","G","(",")">>,
    <<"S","E","L","E","C","T"," ","S","Y","S","D","A","T","E","(",")">> }

Queries == TextsOf(MaxFrags) \cup DocumentedQueries

NoResult == <<"<none>">>

\* a statement has at most this many column definitions
MaxColumns == 2

StatementLeads == { <<>>, <<"\n"," ">> }

StatementHeads == {
    <<"C","R","E","A","T","E"," ","T","A","B","L","E">>, <<"c","r","e","a","t","e"," ","t","a","b","l","e">>, <<"C","r","e","a","t","e"," ","T","a","b","l","e">>, <<"C","R","E","A","T","E"," "," ","T","A","B","L","E">>,
    <<"C","R","E","A","T","E"," ","T","A","B","L","E"," ","I","F"," ","N","O","T"," ","E","X","I","S","T","S">>, <<"C","R","E","A","T","E"," ","O","R"," ","R","E","P","L","A","C","E"," ","T","A","B","L","E">>,
    <<"C","R","E","A","T","E"," ","T","E","M","P","O","R","A","R","Y"," ","T","A","B","L","E">>, <<"C","R","E","A","T","E"," ","L","O","C","A","L"," ","T","E","M","P"," ","T","A","B","L","E">>,
    <<"C","R","E","A","T","E"," ","O","R"," ","R","E","P","L","A","C","E"," ","T","R","A","N","S","I","E","N","T"," ","T","A","B","L","E"," ","I","F"," ","N","O","T"," ","E","X","I","S","T","S">>,
    <<"C","R","E","A","T","E"," ","T","A","B","L","E","X">> }

StatementNames == { <<" ","t">>, <<" ","d","b",".","s",".","t">> }

StatementColumns == {
    <<"i","d"," ","N","U","M","B","E","R">>, <<"i","d"," ","N","U","M","B","E","R"," ","P","R","I","M","A","R","Y"," ","K","E","Y">>, <<"i","d"," ","N","U","M","B","E","R"," ","C","O","N","S","T","R","A","I","N","T"," ","P","R","I","M","A","R","Y"," ","K","E","Y">>,
    <<"n","a","m","e"," ","V","A","R","C","H","A","R","(","5","0",")">>, <<"i","d"," ","i","n","t"," ","n","o","t"," ","n","u","l","l">>, <<"q","t","y"," ","N","U","M","B","E","R","(","1","0",",","2",")"," ","D","E","F","A","U","L","T"," ","0"," ","N","O","T"," ","N","U","L","L">> }

\* the last one leaves text after a complete statement
StatementTails == { <<")">>, <<")"," ","C","O","P","Y"," ","G","R","A","N","T","S">>, <<>>, <<")","\n">>, <<")"," ",")">> }

RECURSIVE ColumnLists(_)
ColumnLists(n) ==
    IF n = 0 THEN {<<>>}
    ELSE IF n = 1 THEN StatementColumns
    ELSE ColumnLists(n-1) \cup
         {l \o <<","," ">> \o c : l \in ColumnLists(n-1) \ {<<>>}, c \in StatementColumns}

\* statements of other kinds, and an unterminated one
OtherStatements == {
    <<"S","E","L","E","C","T"," ","*"," ","F","R","O","M"," ","t">>, <<" ","S","E","L","E","C","T"," ","*"," ","F","R","O","M"," ","t","\n">>, <<"D","R","O","P"," ","T","A","B","L","E"," ","t">>,
    <<"I","N","S","E","R","T"," ","I","N","T","O"," ","t"," ","V","A","L","U","E","S"," ","(","1",")">>, <<"C","R","E","A","T","E"," ","V","I","E","W"," ","v"," ","A","S"," ","S","E","L","E","C","T"," ","1">>,
    <<"C","R","E","A","T","E"," ","T","A","B","L","E"," ","t"," ","(","i","d"," ","N","U","M","B","E","R"," ","P","R","I","M","A","R","Y">>, <<>> }

Statements ==
    { lead \o head \o name \o <<" ","(">> \o cols \o tail :
        lead \in StatementLeads, head \in StatementHeads, name \in StatementNames,
        cols \in ColumnLists(MaxColumns), tail \in StatementTails }
    \cup OtherStatements

----------------------------------------------------------------------------
(* The state machine.                                                      *)

\* no connection yet, no handler call yet
NoCall == [op |-> "none", id |-> 0, ended |-> "none", value |-> "None"]

HandlerInit ==
    /\ connections = <<>>
    /\ connection_params = <<>>
    /\ uuids = 0
    /\ open_cursors = 0
    /\ handled = NoCall
    /\ backend_did = [at |-> "idle"]

\* JSON null, and Python's None
Null == [is |-> "null"]

NoResponse == [status |-> 0]

AppInit ==
    /\ app_pc = "idle"
    /\ request = Null
    /\ app_translated = <<>>
    /\ response = NoResponse

\* SnowflakeLocalClient.__init__, lines 13-40: connection_id = None
NoConnection == 0

ClientIdle == [op |-> "__init__", posts |-> 0, ended |-> "returned"]

ClientInit ==
    /\ client_connection_id = NoConnection
    /\ client_pc = "idle"
    /\ client_did = ClientIdle

\* the threads of the server that handle requests at the same time
Threads == {1, 2}

\* a thread that is not in a call
NotCalling == [pc |-> "idle", query |-> <<>>, original_query |-> <<>>,
               debug |-> FALSE, result |-> NoResult]

\* SnowflakeToPostgreSQLTranslator.__init__, lines 11-55, at app.py line 17
Lexicons == [data_type_mappings |-> data_type_mappings,
             function_mappings |-> function_mappings]

ThreadInit ==
    /\ sql_translator = Lexicons
    /\ thread = [t \in Threads |-> NotCalling]
    /\ written = <<>>

ServiceInit == HandlerInit /\ AppInit /\ ClientInit /\ ThreadInit

Init ==
    /\ pc = "idle"
    /\ query = <<>>
    /\ original_query = <<>>
    /\ debug = FALSE
    /\ emitted = <<>>
    /\ stdout = <<>>
    /\ result = NoResult
    /\ sql = <<>>
    /\ raised = "none"
    /\ parse_calls = 0
    /\ ServiceInit

\* a print of the text the pass was given
print_before(label, text) ==
    stdout' = IF debug THEN Append(stdout, <<label, query>>) ELSE stdout

\* print(...) when debug
print_debug(label, text) ==
    stdout' = IF debug THEN Append(stdout, <<label, text>>) ELSE stdout

\* translate, lines 60-68: log, keep the original, upper-case the working copy
TranslateCall(q, d) ==
    /\ pc = "idle"
    /\ pc' = "upper"
    /\ original_query' = q
    /\ query' = upper(q)
    /\ debug' = d
    /\ emitted' = << <<"INFO", "Translating query", q>> >>
    /\ stdout' = IF d THEN << <<"=== SQL Translation Debug ===", <<>>>>,
                              <<"Original Snowflake SQL", q>> >>
                      ELSE <<>>
    /\ UNCHANGED service_vars
    /\ UNCHANGED <<result, sql, raised, parse_calls>>

\* translate, lines 71-73
DataTypesStep ==
    /\ pc = "upper"
    /\ pc' = "types"
    /\ query' = _translate_data_types(query)
    /\ print_debug("After data type translation", query')
    /\ UNCHANGED service_vars
    /\ UNCHANGED <<original_query, debug, emitted, result, sql, raised, parse_calls>>

\* translate, lines 75-77
FunctionsStep ==
    /\ pc = "types"
    /\ pc' = "functions"
    /\ query' = _translate_functions(query)
    /\ print_debug("After function translation", query')
    /\ UNCHANGED service_vars
    /\ UNCHANGED <<original_query, debug, emitted, result, sql, raised, parse_calls>>

\* translate, lines 79-81; the warning is the one of _translate_merge_syntax
SyntaxStep ==
    /\ pc = "functions"
    /\ pc' = "syntax"
    /\ query' = _translate_snowflake_specific_syntax(query)
    /\ emitted' = IF MergeDetected(TopToLimit(DropAccount(DropWarehouse(query))))
                  THEN Append(emitted,
                         <<"WARNING", "MERGE syntax detected - simplified translation applied", <<>>>>)
                  ELSE emitted
    /\ print_debug("After syntax translation", query')
    /\ UNCHANGED service_vars
    /\ UNCHANGED <<original_query, debug, result, sql, raised, parse_calls>>

\* translate, lines 83-85
IdentifiersStep ==
    /\ pc = "syntax"
    /\ pc' = "identifiers"
    /\ query' = _translate_identifiers(query)
    /\ print_debug("After identifier translation", query')
    /\ UNCHANGED service_vars
    /\ UNCHANGED <<original_query, debug, emitted, result, sql, raised, parse_calls>>

\* translate, lines 88-95: restore the case, log and return
TranslateReturn ==
    /\ pc = "identifiers"
    /\ pc' = "returned"
    /\ query' = _restore_case(query, original_query)
    /\ stdout' = IF debug
                 THEN stdout \o << <<"Final PostgreSQL SQL", query'>>,
                                   <<"=== End Translation ===", <<>>>> >>
                 ELSE stdout
    /\ emitted' = Append(emitted, <<"INFO", "Translated query", query'>>)
    /\ result' = query'
    /\ UNCHANGED service_vars
    /\ UNCHANGED <<original_query, debug, sql, raised, parse_calls>>

\* validate_sql, line 193: sql = sql.strip()
ValidateCall(statement) ==
    /\ pc = "idle"
    /\ pc' = "stripped"
    /\ sql' = strip(statement)
    /\ UNCHANGED service_vars
    /\ UNCHANGED <<query, original_query, debug, emitted, stdout, result,
                   raised, parse_calls>>

\* a test that looks at the first keyword only
StartsWithCreate(statement) == startswith(upper(statement), <<"C","R","E","A","T","E">>)

\* validate_sql, line 195: the test that sends the statement to the parser
IsCreateTable(statement) == startswith(upper(statement), <<"C","R","E","A","T","E"," ","T","A","B","L","E">>)

\* validate_sql, lines 195-198: hand the statement to parse_create_table,
\* or raise NotImplementedError
ValidateDispatch ==
    /\ pc = "stripped"
    /\ IF IsCreateTable(sql)
       THEN pc' = "parsing" /\ raised' = raised
       ELSE pc' = "raised" /\ raised' = "NotImplementedError"
    /\ UNCHANGED service_vars
    /\ UNCHANGED <<query, original_query, debug, emitted, stdout, result,
                   sql, parse_calls>>

\* a parse_create_table that does what its docstring says ("False otherwise"):
\* a failure is logged and False is returned
ParseCreateTableLenient ==
    /\ pc = "parsing"
    /\ parse_calls' = parse_calls + 1
    /\ pc' = "validated"
    /\ raised' = raised
    /\ IF Parses(sql)
       THEN /\ result' = <<"True">>
            /\ emitted' = emitted \o << <<"DEBUG", "Successfully parsed SQL", sql>>,
                                        <<"DEBUG", "Parse tree", sql>> >>
       ELSE /\ result' = <<"False">>
            /\ emitted' = emitted \o << <<"ERROR", "Failed to parse SQL", sql>>,
                                        <<"ERROR", "Error", sql>> >>
    /\ UNCHANGED service_vars
    /\ UNCHANGED <<query, original_query, debug, stdout, sql>>

\* parse_create_table, lines 172-180: parse; True, or log and re-raise
ParseCreateTable ==
    /\ pc = "parsing"
    /\ parse_calls' = parse_calls + 1
    /\ IF Parses(sql)
       THEN /\ pc' = "validated"
            /\ result' = <<"True">>
            /\ emitted' = emitted \o << <<"DEBUG", "Successfully parsed SQL", sql>>,
                                        <<"DEBUG", "Parse tree", sql>> >>
            /\ raised' = raised
       ELSE /\ pc' = "raised"
            /\ raised' = "UnexpectedInput"
            /\ emitted' = emitted \o << <<"ERROR", "Failed to parse SQL", sql>>,
                                        <<"ERROR", "Error", sql>> >>
            /\ result' = result
    /\ UNCHANGED service_vars
    /\ UNCHANGED <<query, original_query, debug, stdout, sql>>

\* the call is over and its locals are gone
CallEnds ==
    /\ pc \in {"returned", "validated", "raised"}
    /\ pc' = "idle"
    /\ query' = <<>>
    /\ original_query' = <<>>
    /\ debug' = FALSE
    /\ emitted' = <<>>
    /\ stdout' = <<>>
    /\ result' = NoResult
    /\ sql' = <<>>
    /\ raised' = "none"
    /\ parse_calls' = 0
    /\ UNCHANGED service_vars

TranslatorNext ==
    \/ pc = "idle" /\ \E q \in Queries, d \in BOOLEAN : TranslateCall(q, d)
    \/ DataTypesStep
    \/ FunctionsStep
    \/ SyntaxStep
    \/ IdentifiersStep
    \/ TranslateReturn
    \/ CallEnds

TranslatorSpec == Init /\ [][TranslatorNext]_vars

ValidatorNext ==
    \/ pc = "idle" /\ \E statement \in Statements : ValidateCall(statement)
    \/ ValidateDispatch
    \/ ParseCreateTable
    \/ CallEnds

ValidatorSpec == Init /\ [][ValidatorNext]_vars

Next == TranslatorNext \/ ValidatorNext

Spec == Init /\ [][Next]_vars

----------------------------------------------------------------------------
(* Repeated substitution: a pass applied again to the text it returned, as *)
(* happens to text that goes through translate more than once.             *)

\* a text longer than this is not rewritten again
MaxTextLen == 80

\* the keys of data_type_mappings, each a text of its own
TypeKeys == {data_type_mappings[n][1] : n \in 1..Len(data_type_mappings)}

\* the pass that is repeated, and the text it starts from
RepeatInit ==
    /\ pc \in {"types again", "functions again"}
    /\ original_query \in Queries \cup TypeKeys
    /\ query = upper(original_query)
    /\ debug = FALSE
    /\ emitted = <<>>
    /\ stdout = <<>>
    /\ result = NoResult
    /\ sql = <<>>
    /\ raised = "none"
    /\ parse_calls = 0
    /\ ServiceInit

\* _translate_data_types on the text it returned, as long as that changes it
TypesAgain ==
    /\ pc = "types again"
    /\ Len(query) <= MaxTextLen
    /\ query' = _translate_data_types(query)
    /\ query' # query
    /\ UNCHANGED service_vars
    /\ UNCHANGED <<pc, original_query, debug, emitted, stdout, result, sql,
                   raised, parse_calls>>

\* _translate_functions on the text it returned, as long as that changes it
FunctionsAgain ==
    /\ pc = "functions again"
    /\ Len(query) <= MaxTextLen
    /\ query' = _translate_functions(query)
    /\ query' # query
    /\ UNCHANGED service_vars
    /\ UNCHANGED <<pc, original_query, debug, emitted, stdout, result, sql,
                   raised, parse_calls>>

RepeatNext == TypesAgain \/ FunctionsAgain

\* every application that changes the text is made
RepeatSpec == RepeatInit /\ [][RepeatNext]_vars /\ WF_vars(RepeatNext)

----------------------------------------------------------------------------
(* The connection handler (PostgreSQLConnectionHandler). A connection id   *)
(* is the number of the uuid4 draw that made it: no two draws are equal.   *)

\* uuid4 is drawn at most this many times
MaxConnections == 2

\* dicts given to create_connection: with autocommit set, and without the key
ParamDicts == { [autocommit |-> TRUE], [autocommit |-> FALSE], [user |-> "u"] }

\* connection_params.get('autocommit', True)
AutocommitOf(params) ==
    IF "autocommit" \in DOMAIN params THEN params.autocommit ELSE TRUE

\* what psycopg2.connect does: a connection, or an error
ConnectOutcomes == {"connected", "OperationalError"}

\* what pg_connection.close() does
CloseOutcomes == {"closed", "InterfaceError"}

\* rows a statement yields, in the order the backend gives them
RowLists == { <<>>, << [id |-> 2], [id |-> 1] >> }

\* what the backend does with a statement: fails when the cursor is made or
\* when the statement is executed, yields rows, or yields none (fetchall
\* raises ProgrammingError) with a row count
BackendOutcomes ==
    { [at |-> "cursor", error |-> "InterfaceError"],
      [at |-> "execute", error |-> "SyntaxError"],
      [at |-> "fetchall", error |-> "OperationalError"] }
    \cup { [at |-> "rows", rows |-> r] : r \in RowLists }
    \cup { [at |-> "no rows", rowcount |-> n] : n \in {3} }

\* the ids the callers try: every id uuid4 can draw, and one it never draws
ConnectionIds == 1..(MaxConnections + 1)

\* the statement handed to the handler directly
BackendStatements == { <<"S","E","L","E","C","T"," ","1"," ","a","s"," ","t","e","s","t">> }

\* ValueError(f"Connection {connection_id} not found")
NotFound(connection_id) ==
    [type |-> "ValueError", message |-> <<"Connection", connection_id, "not found">>]

\* an exception of the backend, as psycopg2 raised it
BackendError(name) == [type |-> name, message |-> <<"backend">>]

\* the domain of the dict d without the key k
Without(d, k) == [i \in DOMAIN d \ {k} |-> d[i]]

\* the dict d with d[k] = v
With(d, k, v) == [i \in DOMAIN d \cup {k} |-> IF i = k THEN v ELSE d[i]]

Returned(op, id, value) == [op |-> op, id |-> id, ended |-> "returned", value |-> value]

Raised(op, id, error) == [op |-> op, id |-> id, ended |-> "raised", value |-> error]

\* create_connection, lines 24-54
create_connection(params, connect) ==
    LET connection_id == uuids + 1
    IN  /\ uuids' = connection_id
        /\ connection_params' = With(connection_params, connection_id, params)
        /\ backend_did' = [at |-> "connect", outcome |-> connect]
        /\ IF connect = "connected"
           THEN /\ connections' = With(connections, connection_id,
                                       [autocommit |-> AutocommitOf(params)])
                /\ handled' = Returned("create_connection", connection_id, connection_id)
           ELSE /\ connections' = connections
                /\ handled' = Raised("create_connection", connection_id,
                                     BackendError(connect))
        /\ open_cursors' = open_cursors

\* a cursor that is left open
cursor_left_open(cursors) == cursors

\* finally: cursor.close(), line 84
cursor_close(cursors) == cursors - 1

\* execute_query, lines 56-84
handler_execute_query(connection_id, statement, backend) ==
    /\ IF connection_id \notin DOMAIN connections
       THEN /\ handled' = Raised("execute_query", connection_id, NotFound(connection_id))
            /\ UNCHANGED <<open_cursors, backend_did>>
       ELSE IF backend.at = "cursor"
       THEN /\ handled' = Raised("execute_query", connection_id,
                                 BackendError(backend.error))
            /\ backend_did' = backend
            /\ open_cursors' = open_cursors
       ELSE /\ backend_did' = [statement |-> statement] @@ backend
            /\ handled' =
                 IF backend.at = "rows"
                 THEN Returned("execute_query", connection_id, backend.rows)
                 ELSE IF backend.at = "no rows"
                 THEN Returned("execute_query", connection_id,
                               [affected_rows |-> backend.rowcount])
                 ELSE Raised("execute_query", connection_id,
                             BackendError(backend.error))
            /\ open_cursors' = cursor_close(open_cursors + 1)
    /\ UNCHANGED <<connections, connection_params, uuids>>

\* a close_connection that forgets the parameters' entry
close_connection_keeping_params(connection_id, close) ==
    /\ IF connection_id \in DOMAIN connections
       THEN /\ backend_did' = [at |-> "close", outcome |-> close]
            /\ IF close = "closed"
               THEN /\ connections' = Without(connections, connection_id)
                    /\ handled' = Returned("close_connection", connection_id, "None")
               ELSE /\ handled' = Raised("close_connection", connection_id,
                                         BackendError(close))
                    /\ UNCHANGED connections
       ELSE /\ handled' = Raised("close_connection", connection_id,
                                 NotFound(connection_id))
            /\ UNCHANGED <<connections, backend_did>>
    /\ UNCHANGED <<connection_params, uuids, open_cursors>>

\* close_connection, lines 86-98
close_connection(connection_id, close) ==
    /\ IF connection_id \in DOMAIN connections
       THEN /\ backend_did' = [at |-> "close", outcome |-> close]
            /\ IF close = "closed"
               THEN /\ connections' = Without(connections, connection_id)
                    /\ connection_params' = Without(connection_params, connection_id)
                    /\ handled' = Returned("close_connection", connection_id, "None")
               ELSE /\ handled' = Raised("close_connection", connection_id,
                                         BackendError(close))
                    /\ UNCHANGED <<connections, connection_params>>
       ELSE /\ handled' = Raised("close_connection", connection_id,
                                 NotFound(connection_id))
            /\ UNCHANGED <<connections, connection_params, backend_did>>
    /\ UNCHANGED <<uuids, open_cursors>>

\* get_connection_info, lines 100-105
get_connection_info(connection_id) ==
    /\ handled' =
          IF connection_id \notin DOMAIN connection_params
          THEN Raised("get_connection_info", connection_id, NotFound(connection_id))
          ELSE Returned("get_connection_info", connection_id,
                        connection_params[connection_id])
    /\ UNCHANGED <<connections, connection_params, uuids, open_cursors, backend_did>>

\* the keys of the dict d in the order they were put in: ids grow with time
RECURSIVE KeysInOrder(_,_)
KeysInOrder(d, n) ==
    IF n = 0 THEN <<>>
    ELSE IF n \in DOMAIN d THEN Append(KeysInOrder(d, n-1), n)
    ELSE KeysInOrder(d, n-1)

\* list_connections, lines 107-109
list_connections ==
    /\ handled' = Returned("list_connections", 0, KeysInOrder(connections, uuids))
    /\ UNCHANGED <<connections, connection_params, uuids, open_cursors, backend_did>>

\* the handler's methods, called directly
HandlerCreate ==
    /\ uuids < MaxConnections
    /\ \E params \in ParamDicts, connect \in ConnectOutcomes :
           create_connection(params, connect)
    /\ UNCHANGED app_vars /\ UNCHANGED outer_vars
    /\ UNCHANGED call_vars

HandlerExecute ==
    /\ \E id \in ConnectionIds, statement \in BackendStatements,
          backend \in BackendOutcomes :
           handler_execute_query(id, statement, backend)
    /\ UNCHANGED app_vars /\ UNCHANGED outer_vars
    /\ UNCHANGED call_vars

HandlerClose ==
    /\ \E id \in ConnectionIds, close \in CloseOutcomes : close_connection(id, close)
    /\ UNCHANGED app_vars /\ UNCHANGED outer_vars
    /\ UNCHANGED call_vars

HandlerInfo ==
    /\ \E id \in ConnectionIds : get_connection_info(id)
    /\ UNCHANGED app_vars /\ UNCHANGED outer_vars
    /\ UNCHANGED call_vars

HandlerList == list_connections /\ UNCHANGED app_vars /\ UNCHANGED outer_vars /\ UNCHANGED call_vars

HandlerNext ==
    \/ HandlerCreate
    \/ HandlerExecute
    \/ HandlerClose
    \/ HandlerInfo
    \/ HandlerList

HandlerSpec == Init /\ [][HandlerNext]_vars

----------------------------------------------------------------------------
(* The HTTP endpoints of app.py, one request at a time. The handler object *)
(* they call is modelled by PostgreSQLConnectionHandler.                   *)

\* JSON values of a request body
String(text) == [is |-> "string", text |-> text]

Number(n) == [is |-> "number", n |-> n]

\* a connection id as the JSON string that names it
IdString(id) == [is |-> "id", id |-> id]

\* Python's truth value of a JSON value
Truthy(v) ==
    /\ v.is # "null"
    /\ v.is = "string" => v.text # <<>>
    /\ v.is = "number" => v.n # 0
    /\ v.is = "bool" => v.b

\* queries sent to /v1/query
RequestQueries == { <<"S","E","L","E","C","T"," ","T","O","P"," ","5"," ","*"," ","F","R","O","M"," ","t","a","b","l","e">>, <<"s","e","l","e","c","t"," ","u","u","i","d","_","s","t","r","i","n","g","(",")">> }

\* bodies sent to /v1/query: objects in which connection_id is missing,
\* empty, the first id or an id never given out, query is missing, empty, a
\* text or a number, and debug is missing or true; and a body that is no object
QueryBodies ==
    { [connection_id |-> c, query |-> q, debug |-> d] :
        c \in {Null, String(<<>>), IdString(1), IdString(0)},
        q \in {Null, String(<<>>), Number(5)} \cup {String(t) : t \in RequestQueries},
        d \in {Null, [is |-> "bool", b |-> TRUE]} }
    \cup {Null}

\* jsonify({"success": False, "error": ...}), status
Failure(status, error) == [status |-> status, success |-> FALSE, error |-> error]

\* str(e) of the exceptions raised while a request is handled
AttributeError(what) == [type |-> "AttributeError", message |-> <<what>>]

\* POST /v1/connection, app.py lines 24-57
AppCreate ==
    /\ app_pc = "idle"
    /\ uuids < MaxConnections
    /\ \E data \in {[user |-> "u"]}, connect \in ConnectOutcomes :
          create_connection([autocommit |-> AutocommitOf(data)], connect)
    /\ response' =
          IF handled'.ended = "returned"
          THEN [status |-> 200, success |-> TRUE, connection_id |-> handled'.value]
          ELSE Failure(500, handled'.value.message)
    /\ UNCHANGED <<app_pc, request, app_translated>>
    /\ UNCHANGED call_vars
    /\ UNCHANGED outer_vars

\* DELETE /v1/connection/<connection_id>, app.py lines 100-115
AppClose ==
    /\ app_pc = "idle"
    /\ \E id \in {0, 1}, close \in CloseOutcomes : close_connection(id, close)
    /\ response' =
          IF handled'.ended = "returned"
          THEN [status |-> 200, success |-> TRUE, connection_id |-> handled'.id]
          ELSE Failure(500, handled'.value.message)
    /\ UNCHANGED <<app_pc, request, app_translated>>
    /\ UNCHANGED call_vars
    /\ UNCHANGED outer_vars

\* POST /v1/query, line 63: data = request.get_json()
receive_query(data) ==
    /\ app_pc = "idle"
    /\ app_pc' = "received"
    /\ request' = data
    /\ app_translated' = <<>>
    /\ response' = NoResponse
    /\ UNCHANGED handler_vars
    /\ UNCHANGED call_vars

\* a request sent to /v1/query by any caller
QueryRequest(data) == receive_query(data) /\ UNCHANGED outer_vars

\* line 70: if not connection_id or not query
NotBothGiven(data) == ~Truthy(data.connection_id) \/ ~Truthy(data.query)

\* POST /v1/query, lines 66-77: read the fields; 400 when one is missing; 500
\* when the body has no fields to read
QueryCheck ==
    /\ app_pc = "received"
    /\ IF request = Null
       THEN /\ response' = Failure(500, AttributeError("get").message)
            /\ app_pc' = "idle"
       ELSE IF NotBothGiven(request)
       THEN /\ response' = Failure(400, <<"connection_id and query are required">>)
            /\ app_pc' = "idle"
       ELSE /\ response' = response
            /\ app_pc' = "translate"
    /\ UNCHANGED <<request, app_translated>>
    /\ UNCHANGED handler_vars
    /\ UNCHANGED call_vars
    /\ UNCHANGED outer_vars

\* POST /v1/query, line 80: sql_translator.translate(query, debug=debug_mode)
QueryTranslate ==
    /\ app_pc = "translate"
    /\ pc = "idle"
    /\ request.query.is = "string"
    /\ TranslateCall(request.query.text, Truthy(request.debug))

\* line 80 for a query that is no string: query.upper() raises, and the
\* handler answers 500
QueryTranslateFails ==
    /\ app_pc = "translate"
    /\ pc = "idle"
    /\ request.query.is # "string"
    /\ response' = Failure(500, AttributeError("upper").message)
    /\ app_pc' = "idle"
    /\ UNCHANGED <<request, app_translated>>
    /\ UNCHANGED handler_vars
    /\ UNCHANGED call_vars
    /\ UNCHANGED outer_vars

\* POST /v1/query, lines 80-81: translate has returned
QueryTranslated ==
    /\ app_pc = "translate"
    /\ pc = "returned"
    /\ app_translated' = result
    /\ app_pc' = "execute"
    /\ pc' = "idle"
    /\ query' = <<>>
    /\ original_query' = <<>>
    /\ debug' = FALSE
    /\ emitted' = <<>>
    /\ stdout' = <<>>
    /\ result' = NoResult
    /\ UNCHANGED <<sql, raised, parse_calls>>
    /\ UNCHANGED <<request, response>>
    /\ UNCHANGED handler_vars
    /\ UNCHANGED outer_vars

\* line 84: connection_handler.execute_query(connection_id, translated_query, params)
app_execute_query(connection_id, statement, backend) ==
    handler_execute_query(connection_id, statement, backend)

\* POST /v1/query, lines 84-98: execute and answer
QueryExecute ==
    /\ app_pc = "execute"
    /\ \E backend \in BackendOutcomes :
          app_execute_query(request.connection_id.id, app_translated, backend)
    /\ response' =
          IF handled'.ended = "returned"
          THEN [status |-> 200, success |-> TRUE, result |-> handled'.value,
                original_query |-> request.query.text,
                translated_query |-> app_translated]
          ELSE Failure(500, handled'.value.message)
    /\ app_pc' = "idle"
    /\ UNCHANGED <<request, app_translated>>
    /\ UNCHANGED call_vars
    /\ UNCHANGED outer_vars

AppNext ==
    \/ AppCreate
    \/ AppClose
    \/ \E data \in QueryBodies : QueryRequest(data)
    \/ QueryCheck
    \/ QueryTranslate
    \/ QueryTranslateFails
    \/ DataTypesStep
    \/ FunctionsStep
    \/ SyntaxStep
    \/ IdentifiersStep
    \/ TranslateReturn
    \/ QueryTranslated
    \/ QueryExecute

AppSpec == Init /\ [][AppNext]_vars

----------------------------------------------------------------------------
(* SnowflakeLocalClient (app/snowflake_proxy/snowflake_local_client.py).   *)
(* A call of the client sends its requests to the proxy with the requests  *)
(* library and waits for each answer: the routes that create and close a   *)
(* connection are one step with the request, and /v1/query runs its steps  *)
(* while the client waits in requests.post.                                *)

\* what can become of a request on its way to the proxy
Deliveries == {"delivered", "ConnectionError"}

\* the calls of the client that open the connection with _get_connection
ClientCalls == {"execute_query", "get_columns_info", "get_primary_key"}

\* the queries the client sends: its caller's, and those of lines 99 and 124-131
ClientQueryOf(call) ==
    IF call = "execute_query" THEN <<"S","E","L","E","C","T"," ","1"," ","a","s"," ","t","e","s","t">>
    ELSE IF call = "get_columns_info" THEN <<"S","E","L","E","C","T"," ","c","o","l","u","m","n","_","n","a","m","e"," ","F","R","O","M"," ","t">>
    ELSE <<"S","E","L","E","C","T"," ","c","o","l","u","m","n","_","n","a","m","e"," ","F","R","O","M"," ","t","c">>

\* the autocommit argument of _get_connection: execute_query passes its
\* caller's, the two metadata calls leave the default
AutocommitArguments(call) == IF call = "execute_query" THEN BOOLEAN ELSE {TRUE}

\* POST /v1/connection as one step, app.py lines 24-57
route_create_connection(data, connect) ==
    /\ create_connection([autocommit |-> AutocommitOf(data)], connect)
    /\ response' =
          IF handled'.ended = "returned"
          THEN [status |-> 200, success |-> TRUE, connection_id |-> handled'.value]
          ELSE Failure(500, handled'.value.message)
    /\ UNCHANGED <<app_pc, request, app_translated>>

\* DELETE /v1/connection/<connection_id> as one step, app.py lines 100-115
route_close_connection(connection_id, close) ==
    /\ close_connection(connection_id, close)
    /\ response' =
          IF handled'.ended = "returned"
          THEN [status |-> 200, success |-> TRUE, connection_id |-> handled'.id]
          ELSE Failure(500, handled'.value.message)
    /\ UNCHANGED <<app_pc, request, app_translated>>

\* a request that did not reach the proxy
NotDelivered ==
    /\ UNCHANGED handler_vars
    /\ UNCHANGED app_vars

ClientDid(op, posts, ended) == [op |-> op, posts |-> posts, ended |-> ended]

\* a client that asks for a connection on every call
always_connect(connection_id) == TRUE

\* line 46: if not self.connection_id
not_connected(connection_id) == connection_id = NoConnection

\* _get_connection, lines 42-72, entered by one of the client's calls; the
\* `with` statement of the call enters the connection object it returns
ClientGetConnection(call, autocommit, delivery, connect) ==
    /\ client_pc = "idle"
    /\ IF not_connected(client_connection_id)
       THEN /\ uuids < MaxConnections
            /\ IF delivery = "delivered"
               THEN /\ route_create_connection([autocommit |-> autocommit], connect)
                    /\ IF response'.status # 200
                       THEN /\ client_connection_id' = client_connection_id
                            /\ client_pc' = "idle"
                            /\ client_did' = ClientDid("_get_connection", 1, "raised")
                       ELSE /\ client_connection_id' = response'.connection_id
                            /\ client_pc' = call
                            /\ client_did' = ClientDid("_get_connection", 1, "returned")
               ELSE /\ NotDelivered
                    /\ client_connection_id' = client_connection_id
                    /\ client_pc' = "idle"
                    /\ client_did' = ClientDid("_get_connection", 1, "raised")
       ELSE /\ NotDelivered
            /\ client_connection_id' = client_connection_id
            /\ client_pc' = call
            /\ client_did' = ClientDid("_get_connection", 0, "returned")
    /\ UNCHANGED call_vars
    /\ UNCHANGED thread_vars

\* LocalSnowflakeConnection.execute_query, lines 172-183, inside the `with`
\* block of the call: the request is sent
ClientPostQuery(delivery) ==
    /\ client_pc \in ClientCalls
    /\ IF delivery = "delivered"
       THEN /\ receive_query(
                  [connection_id |-> IdString(client_connection_id),
                   query |-> String(ClientQueryOf(client_pc)),
                   params |-> Null,
                   debug |-> [is |-> "bool", b |-> FALSE]])
            /\ client_pc' = "requests.post"
            /\ client_did' = client_did
       ELSE /\ NotDelivered
            /\ UNCHANGED call_vars
            /\ client_pc' = "__exit__"
            /\ client_did' = ClientDid("ctx.execute_query", 0, "raised")
    /\ client_connection_id' = client_connection_id
    /\ UNCHANGED thread_vars

\* lines 185-194: the answer of /v1/query has arrived
ClientAnswered ==
    /\ client_pc = "requests.post"
    /\ app_pc = "idle"
    /\ client_pc' = "__exit__"
    /\ client_did' = ClientDid("ctx.execute_query", 0,
                               IF response.status # 200 THEN "raised" ELSE "returned")
    /\ client_connection_id' = client_connection_id
    /\ NotDelivered
    /\ UNCHANGED call_vars
    /\ UNCHANGED thread_vars

\* LocalSnowflakeConnection.__exit__, lines 160-162: pass
ClientExit ==
    /\ client_pc = "__exit__"
    /\ client_pc' = "idle"
    /\ client_did' = ClientDid("__exit__", 0, client_did.ended)
    /\ client_connection_id' = client_connection_id
    /\ NotDelivered
    /\ UNCHANGED call_vars
    /\ UNCHANGED thread_vars

\* close, lines 138-146
ClientClose(delivery, close) ==
    /\ client_pc = "idle"
    /\ IF client_connection_id # NoConnection
       THEN IF delivery = "delivered"
            THEN /\ route_close_connection(client_connection_id, close)
                 /\ client_connection_id' = NoConnection
            ELSE /\ NotDelivered
                 /\ client_connection_id' = client_connection_id
       ELSE /\ NotDelivered
            /\ client_connection_id' = client_connection_id
    /\ client_pc' = "idle"
    /\ client_did' = ClientDid("close", 0, "returned")
    /\ UNCHANGED call_vars
    /\ UNCHANGED thread_vars

ClientNext ==
    \/ \E call \in ClientCalls, delivery \in Deliveries, connect \in ConnectOutcomes :
          \E autocommit \in AutocommitArguments(call) :
             ClientGetConnection(call, autocommit, delivery, connect)
    \/ \E delivery \in Deliveries : ClientPostQuery(delivery)
    \/ QueryCheck
    \/ QueryTranslate
    \/ DataTypesStep
    \/ FunctionsStep
    \/ SyntaxStep
    \/ IdentifiersStep
    \/ TranslateReturn
    \/ QueryTranslated
    \/ QueryExecute
    \/ ClientAnswered
    \/ ClientExit
    \/ \E delivery \in Deliveries, close \in CloseOutcomes : ClientClose(delivery, close)

ClientSpec == Init /\ [][ClientNext]_vars

----------------------------------------------------------------------------
(* Concurrent calls of translate on the one translator of app.py line 17.  *)
(* The server handles requests on threads of its own; each call of         *)
(* translate has its locals (query, original_query, debug) on the stack of *)
(* its thread, and reads the lexicons of the shared instance. A step of a   *)
(* thread is one statement group of translate; the logger and the standard *)
(* output are shared by the threads.                                       *)

\* the calls the threads make: the query and the debug flag
ConcurrentCalls == {
    <<<<"c"," ","F","L","O","A","T","8">>, FALSE>>,
    <<<<"s","e","l","e","c","t"," ","u","u","i","d","_","s","t","r","i","n","g","(",")">>, TRUE>>,
    <<<<"S","E","L","E","C","T"," ","T","O","P"," ","5"," ","*"," ","F","R","O","M"," ","D","B",".","S",".","T">>, FALSE>> }

\* the first n entries of a lexicon of types applied in order, lines 99-102
RECURSIVE TypesOf(_,_,_)
TypesOf(mappings, q, n) ==
    IF n = 0 THEN q
    ELSE Let(TypesOf(mappings, q, n-1),
             LAMBDA t : SubType(t, mappings[n][1], mappings[n][2]))

\* the first n entries of a lexicon of functions applied in order, lines 108-109
RECURSIVE FunctionsOf(_,_,_)
FunctionsOf(mappings, q, n) ==
    IF n = 0 THEN q
    ELSE Let(FunctionsOf(mappings, q, n-1),
             LAMBDA t : str_replace(t, mappings[n][1], mappings[n][2]))

\* a loop that takes each entry out of the lexicon it goes through
items_popped(mappings) == IF mappings = <<>> THEN mappings ELSE Tail(mappings)

\* for ... in self.data_type_mappings.items(), line 99, and
\* self.function_mappings.items(), line 108: the lexicon after the loop
items(mappings) == mappings

\* nothing but the threads is at work
NoOtherCaller ==
    /\ UNCHANGED call_vars
    /\ UNCHANGED <<handler_vars, app_vars, client_vars>>

\* what thread t writes in a step: the logger's records and the printed lines
Writes(t, records) == written' = written \o [i \in 1..Len(records) |-> <<t, records[i]>>]

Printed(t, label) == IF thread[t].debug THEN << <<"print", label>> >> ELSE <<>>

\* translate, lines 60-69, on thread t
ThreadCall(t, q, d) ==
    /\ thread[t].pc = "idle"
    /\ thread' = [thread EXCEPT ![t] =
                    [pc |-> "upper", query |-> upper(q), original_query |-> q,
                     debug |-> d, result |-> NoResult]]
    /\ Writes(t, << <<"INFO", "Translating query">> >>
                 \o (IF d THEN << <<"print", "=== SQL Translation Debug ===">>,
                                  <<"print", "Original Snowflake SQL">> >>
                     ELSE <<>>))
    /\ UNCHANGED sql_translator
    /\ NoOtherCaller

\* translate, lines 71-73, on thread t
ThreadDataTypes(t) ==
    /\ thread[t].pc = "upper"
    /\ thread' = [thread EXCEPT
                    ![t].pc = "types",
                    ![t].query = TypesOf(sql_translator.data_type_mappings, @,
                                         Len(sql_translator.data_type_mappings))]
    /\ sql_translator' = [sql_translator EXCEPT !.data_type_mappings = items(@)]
    /\ Writes(t, Printed(t, "After data type translation"))
    /\ NoOtherCaller

\* translate, lines 75-77, on thread t
ThreadFunctions(t) ==
    /\ thread[t].pc = "types"
    /\ thread' = [thread EXCEPT
                    ![t].pc = "functions",
                    ![t].query = FunctionsOf(sql_translator.function_mappings, @,
                                             Len(sql_translator.function_mappings))]
    /\ sql_translator' = [sql_translator EXCEPT !.function_mappings = items(@)]
    /\ Writes(t, Printed(t, "After function translation"))
    /\ NoOtherCaller

\* translate, lines 79-81, on thread t
ThreadSyntax(t) ==
    /\ thread[t].pc = "functions"
    /\ thread' = [thread EXCEPT
                    ![t].pc = "syntax",
                    ![t].query = _translate_snowflake_specific_syntax(@)]
    /\ Writes(t, (IF MergeDetected(TopToLimit(DropAccount(DropWarehouse(thread[t].query))))
                  THEN << <<"WARNING", "MERGE syntax detected">> >> ELSE <<>>)
                 \o Printed(t, "After syntax translation"))
    /\ UNCHANGED sql_translator
    /\ NoOtherCaller

\* translate, lines 83-85, on thread t
ThreadIdentifiers(t) ==
    /\ thread[t].pc = "syntax"
    /\ thread' = [thread EXCEPT
                    ![t].pc = "identifiers",
                    ![t].query = _translate_identifiers(@)]
    /\ Writes(t, Printed(t, "After identifier translation"))
    /\ UNCHANGED sql_translator
    /\ NoOtherCaller

\* translate, lines 88-95, on thread t
ThreadReturn(t) ==
    /\ thread[t].pc = "identifiers"
    /\ thread' = [thread EXCEPT
                    ![t].pc = "returned",
                    ![t].query = _restore_case(@, thread[t].original_query),
                    ![t].result = _restore_case(thread[t].query,
                                                thread[t].original_query)]
    /\ Writes(t, Printed(t, "Final PostgreSQL SQL")
                 \o Printed(t, "=== End Translation ===")
                 \o << <<"INFO", "Translated query">> >>)
    /\ UNCHANGED sql_translator
    /\ NoOtherCaller

ConcurrentNext ==
    \/ \E t \in Threads, c \in ConcurrentCalls : ThreadCall(t, c[1], c[2])
    \/ \E t \in Threads : ThreadDataTypes(t)
    \/ \E t \in Threads : ThreadFunctions(t)
    \/ \E t \in Threads : ThreadSyntax(t)
    \/ \E t \in Threads : ThreadIdentifiers(t)
    \/ \E t \in Threads : ThreadReturn(t)

ConcurrentSpec == Init /\ [][ConcurrentNext]_vars

----------------------------------------------------------------------------
(* Properties C1 .. C10 of the translator and the validator.               *)

\* the call in progress is a step of IdentifiersStep / DataTypesStep
FlatteningStep == pc = "syntax" /\ pc' = "identifiers"

TypeSubstitutionStep == pc = "upper" /\ pc' = "types"

\* the validate_sql call is over
ValidateOver == pc \in {"validated", "raised"}

\* C1: the type pass applied to its own output changes nothing, and the
\* function pass applied to its own output changes nothing.
C1_PassesIdempotent ==
    /\ pc = "types" => _translate_data_types(query) = query
    /\ pc = "functions" => _translate_functions(query) = query

\* a word character stands at position i of t
IsWordAt(t, i) == i >= 1 /\ i <= Len(t) /\ IsWordChar(t[i])

\* a dotted sequence starts at i: a word that is not the next part of one
ChainStart(t, i) ==
    /\ IsWordAt(t, i)
    /\ ~IsWordAt(t, i-1)
    /\ ~(i > 2 /\ t[i-1] = "." /\ IsWordAt(t, i-2))

\* the number of parts of the dotted sequence that starts at i
RECURSIVE Parts(_,_)
Parts(t, i) ==
    LET e == WordRunEnd(t, i)
    IN  IF e = i THEN 0
        ELSE IF e <= Len(t) /\ t[e] = "." /\ IsWordAt(t, e+1)
             THEN 1 + Parts(t, e+1) ELSE 1

\* the position after the first n parts of the dotted sequence at i
RECURSIVE DottedEnd(_,_,_)
DottedEnd(t, i, n) ==
    IF n = 1 THEN WordRunEnd(t, i) ELSE DottedEnd(t, WordRunEnd(t, i) + 1, n-1)

\* C2: a four-part dotted sequence A.B.C.D of the text given to the
\* flattening pass is still in the text the pass gives back.
C2_FourPartUnchanged ==
    [][FlatteningStep =>
         \A i \in 1..Len(query) :
            (ChainStart(query, i) /\ Parts(query, i) = 4)
               => Contains(query', Slice(query, i, DottedEnd(query, i, 4)))]_vars

\* t from position i on, with every three-part sequence A.B.C cut to B.C
RECURSIVE FlattenFrom(_,_)
FlattenFrom(t, i) ==
    IF i > Len(t) THEN <<>>
    ELSE IF ChainStart(t, i)
         THEN LET n == Parts(t, i)
                  e == DottedEnd(t, i, n)
              IN  (IF n = 3 THEN Slice(t, WordRunEnd(t, i) + 1, e)
                            ELSE Slice(t, i, e)) \o FlattenFrom(t, e)
         ELSE <<t[i]>> \o FlattenFrom(t, i+1)

\* C3: in a text whose dotted sequences have at most three parts, the
\* flattening pass cuts every three-part A.B.C to B.C and leaves every
\* two-part sequence, every undotted word and all other text as it is.
C3_ThreePartFlattened ==
    [][(FlatteningStep
          /\ \A i \in 1..Len(query) : ChainStart(query, i) => Parts(query, i) <= 3)
         => query' = FlattenFrom(query, 1)]_vars

C3_Witness ==
    /\ pc = "identifiers"
    /\ original_query = <<"D","B",".","S",".","T">>
    /\ query = <<"S",".","T">>

C4_Statement == <<"C","R","E","A","T","E"," ","T","A","B","L","E"," ","t"," ","(","i","d"," ","N","U","M","B","E","R"," ","P","R","I","M","A","R","Y"," ","K","E","Y",","," ","n","a","m","e"," ","V","A","R","C","H","A","R","(","5","0",")",")">>

\* C4: validate_sql returns True for
\* CREATE TABLE t (id NUMBER PRIMARY KEY, name VARCHAR(50)).
C4_InlinePrimaryKeyAccepted ==
    (ValidateOver /\ sql = C4_Statement) => (pc = "validated" /\ result = <<"True">>)

\* the call has logged the warning of the MERGE rewrite
WarningEmitted == \E n \in 1..Len(emitted) : emitted[n][1] = "WARNING"

\* the input of the call holds the keyword MERGE, in any letter case
InputHasMerge == Contains(upper(original_query), <<"M","E","R","G","E">>)

\* the input of the call holds the keyword of a clause the syntax pass drops
InputHasClauseKeyword ==
    \/ Contains(upper(original_query), <<"W","A","R","E","H","O","U","S","E">>)
    \/ Contains(upper(original_query), <<"A","C","C","O","U","N","T">>)

AfterUpper == upper(original_query)

AfterTypes == Let(AfterUpper, _translate_data_types)

AfterFunctions == Let(AfterTypes, _translate_functions)

AfterWarehouse == Let(AfterFunctions, DropWarehouse)

AfterAccount == Let(AfterWarehouse, DropAccount)

AfterTop == Let(AfterAccount, TopToLimit)

AfterSyntax == Let(AfterTop, _translate_merge_syntax)

AfterIdentifiers == Let(AfterSyntax, _translate_identifiers)

AfterRestore == Let(AfterIdentifiers, LAMBDA t : _restore_case(t, original_query))

\* C6: at every point of a translate call the working text is the input
\* taken through the passes in the order upper-casing, types, functions,
\* WAREHOUSE drop, ACCOUNT drop, TOP->LIMIT, MERGE->INSERT, flattening, case
\* restoration, each once and each on the text the one before it gave.
C6_FixedPassOrder ==
    /\ pc = "upper" => query = AfterUpper
    /\ pc = "types" => query = AfterTypes
    /\ pc = "functions" => query = AfterFunctions
    /\ pc = "syntax" => query = AfterSyntax
    /\ pc = "identifiers" => query = AfterIdentifiers
    /\ pc = "returned" => (query = AfterRestore /\ result = query)

C6_Witness ==
    /\ pc = "returned"
    /\ original_query = <<"W","A","R","E","H","O","U","S","E"," ","D","B",".","S",".","T">>
    /\ result = <<".","S",".","T">>

\* the target of the word w when w is a key of data_type_mappings, else w
TypeOfWord(w) ==
    IF \E n \in 1..Len(data_type_mappings) : data_type_mappings[n][1] = w
    THEN data_type_mappings[
             CHOOSE n \in 1..Len(data_type_mappings) : data_type_mappings[n][1] = w][2]
    ELSE w

\* t from position i on, with every whole word that is a key replaced by
\* the key's target
RECURSIVE WordwiseTypes(_,_)
WordwiseTypes(t, i) ==
    IF i > Len(t) THEN <<>>
    ELSE IF IsWordAt(t, i)
         THEN TypeOfWord(Slice(t, i, WordRunEnd(t, i)))
                  \o WordwiseTypes(t, WordRunEnd(t, i))
         ELSE <<t[i]>> \o WordwiseTypes(t, i+1)

\* C7: the type pass gives back its text with every whole word that is a
\* key replaced by that key's target and everything else, a longer word
\* holding a key included, as it was.
C7_WholeWordsReplacedByTarget ==
    [][TypeSubstitutionStep => query' = WordwiseTypes(query, 1)]_vars

\* C8: when the trimmed statement does not begin with CREATE TABLE (in any
\* letter case) the call raises NotImplementedError and has not called the
\* parser.
C8_OtherKindsUnsupported ==
    (pc \in {"parsing", "validated", "raised"}
        /\ ~LitAt(<<"C","R","E","A","T","E"," ","T","A","B","L","E">>, sql, 1, TRUE))
      => (pc = "raised" /\ raised = "NotImplementedError" /\ parse_calls = 0)

C8_Witness ==
    /\ pc = "raised"
    /\ sql = <<"S","E","L","E","C","T"," ","*"," ","F","R","O","M"," ","t">>
    /\ raised = "NotImplementedError"
    /\ parse_calls = 0

\* the documented heads that use an optional prefix
OptionalPrefixHeads == {
    <<"C","R","E","A","T","E"," ","O","R"," ","R","E","P","L","A","C","E"," ","T","A","B","L","E"," ">>, <<"C","R","E","A","T","E"," ","T","E","M","P","O","R","A","R","Y"," ","T","A","B","L","E"," ">>,
    <<"C","R","E","A","T","E"," ","L","O","C","A","L"," ","T","E","M","P"," ","T","A","B","L","E"," ">>, <<"C","R","E","A","T","E"," ","T","A","B","L","E"," ","I","F"," ","N","O","T"," ","E","X","I","S","T","S"," ">>,
    <<"C","R","E","A","T","E"," ","O","R"," ","R","E","P","L","A","C","E"," ","T","R","A","N","S","I","E","N","T"," ","T","A","B","L","E"," ","I","F"," ","N","O","T"," ","E","X","I","S","T","S"," ">> }

\* C9: a statement that starts with one of the optional prefixes and is
\* well-formed by the grammar is accepted by validate_sql.
C9_OptionalPrefixesAccepted ==
    (ValidateOver /\ Parses(sql) /\ \E h \in OptionalPrefixHeads : startswith(sql, h))
      => pc = "validated"

\* what validate_sql does with the statement t
Verdict(t) ==
    IF ~IsCreateTable(strip(t)) THEN "NotImplementedError"
    ELSE IF Parses(strip(t)) THEN "validated"
    ELSE "UnexpectedInput"

\* C10: the verdict of a finished validate_sql call is the verdict for
\* the same statement written in upper case.
C10_VerdictIgnoresCase ==
    ValidateOver =>
        (IF pc = "validated" THEN "validated" ELSE raised) = Verdict(upper(sql))

\* a finished call that went past the CREATE TABLE test
PastTheGate == ValidateOver /\ LitAt(<<"C","R","E","A","T","E"," ","T","A","B","L","E">>, sql, 1, TRUE)

\* the text ends with the text suffix
endswith(s, suffix) == LitAt(suffix, s, Len(s) - Len(suffix) + 1, FALSE)

C11_Misspelt == <<"C","R","E","A","T","E"," ","T","A","B","L","E","X"," ","t"," ","(","i","d"," ","N","U","M","B","E","R",")">>

C11_Unterminated == <<"C","R","E","A","T","E"," ","T","A","B","L","E"," ","t"," ","(","i","d"," ","N","U","M","B","E","R"," ","P","R","I","M","A","R","Y">>

\* C11: a statement that begins with CREATE TABLE and that the grammar does
\* not consume to its end is rejected with the parser's syntax error and is
\* never accepted: so are CREATE TABLEX t (...), the unterminated
\* CREATE TABLE t (id NUMBER PRIMARY, and a statement followed by more text.
C11_UnparsableRejected ==
    PastTheGate =>
        /\ ~Parses(sql) => (pc = "raised" /\ raised = "UnexpectedInput"
                               /\ result = NoResult)
        /\ (sql \in {C11_Misspelt, C11_Unterminated} \/ endswith(sql, <<")"," ",")">>))
              => (pc = "raised" /\ raised = "UnexpectedInput")

C11_Witness ==
    /\ pc = "raised"
    /\ sql = C11_Misspelt
    /\ raised = "UnexpectedInput"
    /\ parse_calls = 1

SyntaxPassStep == pc = "functions" /\ pc' = "syntax"

\* a word starts at position i of t
WordStart(t, i) == IsWordAt(t, i) /\ ~IsWordAt(t, i-1)

\* the word that starts at i, in upper case
WordFrom(t, i) == upper(Slice(t, i, WordRunEnd(t, i)))

\* t from position i on, read word by word, with every word TOP that white
\* space and digits follow replaced, with that white space, by LIMIT and one
\* blank; the digits and all other text stay
RECURSIVE TopWise(_,_)
TopWise(t, i) ==
    IF i > Len(t) THEN <<>>
    ELSE IF WordStart(t, i)
         THEN LET e == WordRunEnd(t, i)
                  b == SpaceRunEnd(t, e)
                  c == DigitRunEnd(t, b)
              IN  IF WordFrom(t, i) = <<"T","O","P">> /\ b > e /\ c > b
                  THEN <<"L","I","M","I","T"," ">> \o Slice(t, b, c) \o TopWise(t, c)
                  ELSE Slice(t, i, e) \o TopWise(t, e)
         ELSE <<t[i]>> \o TopWise(t, i+1)

ClauseFrom(keyword, t, i) ==
    LET e == WordRunEnd(t, i)
        b == SpaceRunEnd(t, e)
        c == WordRunEnd(t, b)
    IN  IF WordStart(t, i) /\ WordFrom(t, i) = keyword /\ b > e /\ c > b
        THEN c ELSE 0

\* t from position i on, read word by word, without the clauses of keyword
RECURSIVE DropClauseWise(_,_,_)
DropClauseWise(keyword, t, i) ==
    IF i > Len(t) THEN <<>>
    ELSE IF ClauseFrom(keyword, t, i) > 0
         THEN DropClauseWise(keyword, t, ClauseFrom(keyword, t, i))
    ELSE IF WordStart(t, i)
         THEN Slice(t, i, WordRunEnd(t, i)) \o DropClauseWise(keyword, t, WordRunEnd(t, i))
         ELSE <<t[i]>> \o DropClauseWise(keyword, t, i+1)

\* t holds a WAREHOUSE or ACCOUNT keyword with white space and a word after it
HasClause(t) ==
    \E i \in 1..Len(t) :
        ClauseFrom(<<"W","A","R","E","H","O","U","S","E">>, t, i) > 0 \/ ClauseFrom(<<"A","C","C","O","U","N","T">>, t, i) > 0

\* C14: the two drop rules of the syntax pass cut out of the text, read from
\* the left, every WAREHOUSE <ident> and then every ACCOUNT <ident>, keyword
\* and identifier, and nothing else; the text the pass gives back holds no
\* WAREHOUSE or ACCOUNT keyword followed by white space and an identifier.
C14_ClausesDroppedEntirely ==
    [][SyntaxPassStep =>
         LET w == DropClauseWise(<<"W","A","R","E","H","O","U","S","E">>, query, 1)
             a == DropClauseWise(<<"A","C","C","O","U","N","T">>, w, 1)
         IN  /\ DropAccount(DropWarehouse(query)) = a
             /\ query' = _translate_merge_syntax(TopToLimit(a))
             /\ ~HasClause(query')]_vars

C14_Witness ==
    /\ pc = "syntax"
    /\ original_query = <<"A","C","C","O","U","N","T"," ","I","N","T">>
    /\ query = <<>>

\* the listed lexicon entries: a statement that holds the source token, and
\* the same statement, in upper case, with the listed target in its place
DocumentedTranslations == {
    <<<<"c"," ","N","U","M","B","E","R">>,
      <<"C"," ","N","U","M","E","R","I","C">>>>,
    <<<<"c"," ","N","U","M","B","E","R","(","1","0",",","2",")">>,
      <<"C"," ","N","U","M","E","R","I","C","(","1","0",",","2",")">>>>,
    <<<<"c"," ","I","N","T">>,
      <<"C"," ","I","N","T","E","G","E","R">>>>,
    <<<<"c"," ","S","T","R","I","N","G">>,
      <<"C"," ","T","E","X","T">>>>,
    <<<<"c"," ","T","I","M","E","S","T","A","M","P","_","N","T","Z">>,
      <<"C"," ","T","I","M","E","S","T","A","M","P">>>>,
    <<<<"c"," ","T","I","M","E","S","T","A","M","P","_","L","T","Z">>,
      <<"C"," ","T","I","M","E","S","T","A","M","P"," ","W","I","T","H"," ","T","I","M","E"," ","Z","O","N","E">>>>,
    <<<<"c"," ","T","I","M","E","S","T","A","M","P","_","T","Z">>,
      <<"C"," ","T","I","M","E","S","T","A","M","P"," ","W","I","T","H"," ","T","I","M","E"," ","Z","O","N","E">>>>,
    <<<<"c"," ","V","A","R","I","A","N","T">>,
      <<"C"," ","J","S","O","N","B">>>>,
    <<<<"c"," ","O","B","J","E","C","T">>,
      <<"C"," ","J","S","O","N","B">>>>,
    <<<<"c"," ","A","R","R","A","Y">>,
      <<"C"," ","J","S","O","N","B">>>>,
    <<<<"c"," ","B","I","N","A","R","Y">>,
      <<"C"," ","B","Y","T","E","A">>>>,
    <<<<"c"," ","V","A","R","B","I","N","A","R","Y">>,
      <<"C"," ","B","Y","T","E","A">>>>,
    <<<<"S","E","L","E","C","T"," ","C","U","R","R","E","N","T","_","T","I","M","E","S","T","A","M","P","(",")">>,
      <<"S","E","L","E","C","T"," ","C","U","R","R","E","N","T","_","T","I","M","E","S","T","A","M","P">>>>,
    <<<<"S","E","L","E","C","T"," ","C","U","R","R","E","N","T","_","D","A","T","E","(",")">>,
      <<"S","E","L","E","C","T"," ","C","U","R","R","E","N","T","_","D","A","T","E">>>>,
    <<<<"S","E","L","E","C","T"," ","U","U","I","D","_","S","T","R","I","N","G","(",")">>,
      <<"S","E","L","E","C","T"," ","g","e","n","_","r","a","n","d","o","m","_","u","u","i","d","(",")">>>>,
    <<<<"S","E","L","E","C","T"," ","S","Y","S","D","A","T","E","(",")">>,
      <<"S","E","L","E","C","T"," ","C","U","R","R","E","N","T","_","D","A","T","E">>>>,
    <<<<"C","R","E","A","T","E"," ","T","A","B","L","E"," ","t","e","s","t"," ","(","i","d"," ","N","U","M","B","E","R",","," ","n","a","m","e"," ","V","A","R","C","H","A","R","(","2","5","5",")",","," ","a","m","o","u","n","t"," ","N","U","M","B","E","R","(","1","0",",","2",")",")">>,
      <<"C","R","E","A","T","E"," ","T","A","B","L","E"," ","T","E","S","T"," ","(","I","D"," ","N","U","M","E","R","I","C",","," ","N","A","M","E"," ","V","A","R","C","H","A","R","(","2","5","5",")",","," ","A","M","O","U","N","T"," ","N","U","M","E","R","I","C","(","1","0",",","2",")",")">>>>,
    <<<<"S","E","L","E","C","T"," ","C","U","R","R","E","N","T","_","D","A","T","E","(",")",","," ","C","U","R","R","E","N","T","_","T","I","M","E","S","T","A","M","P","(",")">>,
      <<"S","E","L","E","C","T"," ","C","U","R","R","E","N","T","_","D","A","T","E",","," ","C","U","R","R","E","N","T","_","T","I","M","E","S","T","A","M","P">>>> }

HoldsDouble(t) ==
    \E i \in 1..Len(t) :
        /\ LitAt(<<"D","O","U","B","L","E">>, t, i, FALSE)
        /\ ~(i > 1 /\ IsWordChar(t[i-1]))
        /\ ~(i + 6 <= Len(t) /\ IsWordChar(t[i+6]))

\* a text with the word DOUBLE comes out of the type pass longer and with the
\* word DOUBLE still in it: from such a text on the pass changes the text at
\* every application, whatever the length
DoubleKeepsGrowing ==
    (pc = "types again" /\ HoldsDouble(query)) =>
        /\ HoldsDouble(_translate_data_types(query))
        /\ Len(_translate_data_types(query)) > Len(query)

\* the repeated pass no longer changes the text
Settled ==
    /\ pc = "types again" => _translate_data_types(query) = query
    /\ pc = "functions again" => _translate_functions(query) = query

ReturnStep == pc = "identifiers" /\ pc' = "returned"

\* the query with every small letter written as its capital
InCapitals(q) ==
    [i \in 1..Len(q) |-> IF q[i] \in LowerLetters THEN ToUpper[q[i]] ELSE q[i]]

\* C17: translate returns for a query what it returns for the same query
\* written in capitals, so a type, a function call or a clause keyword is
\* rewritten in whatever letter case it is written.
C17_MatchingIgnoresCase ==
    [][ReturnStep => result' = TranslateOf(InCapitals(original_query))]_vars

C17_Witness ==
    /\ pc = "returned"
    /\ original_query = <<"s","e","l","e","c","t"," ","u","u","i","d","_","s","t","r","i","n","g","(",")">>
    /\ original_query # InCapitals(original_query)
    /\ result = <<"S","E","L","E","C","T"," ","g","e","n","_","r","a","n","d","o","m","_","u","u","i","d","(",")">>

HasLower(t) == \E i \in 1..Len(t) : t[i] \in LowerLetters

\* the query holds the key of a function whose target has small letters
HoldsLowerTarget(q) ==
    \E n \in 1..Len(function_mappings) :
        /\ HasLower(function_mappings[n][2])
        /\ Contains(q, function_mappings[n][1])

\* C18 as stated: no text that translate returns holds a small letter.
C18_OutputAlwaysUpperCase == pc = "returned" => ~HasLower(result)

\* C18: the restoration changes nothing, translate returns the text the
\* identifier pass produced; that text holds a small letter only where the
\* query, in capitals, holds a function whose target is written in small
\* letters.
C18_RestoreIsNoOp ==
    [][ReturnStep =>
          /\ result' = query
          /\ HasLower(result') => HoldsLowerTarget(InCapitals(original_query))]_vars

C18_Witness ==
    /\ pc = "returned"
    /\ debug
    /\ original_query = <<"S","E","L","E","C","T"," ","U","U","I","D","_","S","T","R","I","N","G","(",")">>
    /\ stdout[6] = <<"After identifier translation", result>>
    /\ HasLower(result)

\* lit stands in t at position i as a whole word
WholeWordAt(lit, t, i) ==
    /\ LitAt(lit, t, i, FALSE)
    /\ ~IsWordAt(t, i-1)
    /\ ~IsWordAt(t, i + Len(lit))

\* t holds a name of three parts: a word, a dot, a word, a dot, a word
HoldsThreePart(t) ==
    \E i, j \in 1..Len(t) :
        /\ i + 1 < j
        /\ t[i] = "." /\ t[j] = "."
        /\ \A k \in (i+1)..(j-1) : IsWordChar(t[k])
        /\ IsWordAt(t, i-1)
        /\ IsWordAt(t, j+1)

\* nothing in the text q, written in capitals, is taken by a rule of a pass
MatchesNoRule(q) ==
    /\ \A n \in 1..Len(data_type_mappings), i \in 1..Len(q) :
           ~WholeWordAt(data_type_mappings[n][1], q, i)
    /\ \A n \in 1..Len(function_mappings) : ~Contains(q, function_mappings[n][1])
    /\ ~HasClause(q)
    /\ \A i \in 1..Len(q) :
           ~(/\ WordStart(q, i) /\ WordFrom(q, i) = <<"T","O","P">>
             /\ SpaceRunEnd(q, i+3) > i+3
             /\ DigitRunEnd(q, SpaceRunEnd(q, i+3)) > SpaceRunEnd(q, i+3))
    /\ ~Contains(q, <<"M","E","R","G","E">>)
    /\ ~HoldsThreePart(q)

IsText(t) ==
    /\ t # NoResult
    /\ \A i \in 1..Len(t) : Len(t[i]) = 1

\* C19: translate raises nothing at any point of a call, what it returns is a
\* text, and a query in which no rule of any pass finds a match is returned
\* in capitals and otherwise as it was.
C19_PipelineNeverFails ==
    /\ pc \in {"upper", "types", "functions", "syntax", "identifiers", "returned"}
          => raised = "none"
    /\ pc = "returned" =>
          /\ IsText(result)
          /\ MatchesNoRule(InCapitals(original_query))
                => result = InCapitals(original_query)

C19_Witness ==
    /\ pc = "returned"
    /\ raised = "none"
    /\ original_query = <<"s","e","l","e","c","t"," ","*"," ","f","r","o","m"," ","t">>
    /\ MatchesNoRule(InCapitals(original_query))
    /\ result = <<"S","E","L","E","C","T"," ","*"," ","F","R","O","M"," ","T">>

\* the lines a call with debug prints for the query q, in the order of the
\* calls
TraceOf(q) ==
    LET typed      == _translate_data_types(upper(q))
        called     == _translate_functions(typed)
        rewritten  == _translate_snowflake_specific_syntax(called)
        flattened  == _translate_identifiers(rewritten)
    IN  << <<"=== SQL Translation Debug ===", <<>>>>,
           <<"Original Snowflake SQL", q>>,
           <<"After data type translation", typed>>,
           <<"After function translation", called>>,
           <<"After syntax translation", rewritten>>,
           <<"After identifier translation", flattened>>,
           <<"Final PostgreSQL SQL", _restore_case(flattened, q)>>,
           <<"=== End Translation ===", <<>>>> >>

\* C20: with or without debug a call returns the same text, the one that the
\* query alone determines, and logs the same two lines; with debug it prints
\* the stages in the order of the calls, each with the text that stage
\* produced, and without debug it prints nothing.
C20_TraceChangesNothing ==
    [][ReturnStep =>
          LET trace == TraceOf(original_query)
          IN  /\ stdout' = IF debug THEN trace ELSE <<>>
              /\ result' = trace[7][2]
              /\ emitted'[1] = <<"INFO", "Translating query", original_query>>
              /\ emitted'[Len(emitted')] = <<"INFO", "Translated query", result'>>]_vars

C20_Witness ==
    /\ pc = "returned"
    /\ debug
    /\ original_query = <<"S","E","L","E","C","T"," ","T","O","P"," ","1","0"," ","*"," ","F","R","O","M"," ","t">>
    /\ Len(stdout) = 8
    /\ stdout[4] = <<"After function translation", <<"S","E","L","E","C","T"," ","T","O","P"," ","1","0"," ","*"," ","F","R","O","M"," ","T">>>>
    /\ stdout[5] = <<"After syntax translation", <<"S","E","L","E","C","T"," ","L","I","M","I","T"," ","1","0"," ","*"," ","F","R","O","M"," ","T">>>>
    /\ result = <<"S","E","L","E","C","T"," ","L","I","M","I","T"," ","1","0"," ","*"," ","F","R","O","M"," ","T">>

----------------------------------------------------------------------------
(* Properties C22 .. C27 of the connection handler, the /v1/query handler  *)
(* and the client.                                                         *)

\* a step that ends an execute_query on a connection that is registered
ExecuteOnRegistered ==
    /\ handled'.op = "execute_query"
    /\ handled'.id \in DOMAIN connections

\* C22: execute_query on a registered connection returns the rows the
\* statement yielded, in the backend's order, or else the count of affected
\* rows; an error of the backend is raised as the backend raised it; after
\* the call no cursor is open and the connection is registered as before.
C22_ExecuteQueryOutcome ==
    [][ExecuteOnRegistered =>
          /\ backend_did'.at = "rows" =>
                handled' = Returned("execute_query", handled'.id, backend_did'.rows)
          /\ backend_did'.at = "no rows" =>
                handled' = Returned("execute_query", handled'.id,
                                    [affected_rows |-> backend_did'.rowcount])
          /\ backend_did'.at \in {"cursor", "execute", "fetchall"} =>
                handled' = Raised("execute_query", handled'.id,
                                  BackendError(backend_did'.error))
          /\ backend_did'.at \in {"rows", "no rows", "cursor", "execute", "fetchall"}
          /\ open_cursors' = 0
          /\ connections' = connections
          /\ connection_params' = connection_params]_vars

C22_Witness ==
    /\ handled.op = "execute_query"
    /\ handled.ended = "raised"
    /\ handled.id = 2
    /\ handled.value = BackendError("SyntaxError")
    /\ backend_did.at = "execute"
    /\ 2 \in DOMAIN connections
    /\ open_cursors = 0

\* a step that ends a call of execute_query, close_connection or
\* get_connection_info with an id that was not registered when it was made
CallOnUnregistered ==
    /\ handled'.op \in {"execute_query", "close_connection", "get_connection_info"}
    /\ handled'.id \notin DOMAIN connections

\* C24: execute_query, close_connection and get_connection_info with an id
\* that is not registered raise ValueError "Connection <id> not found" and
\* leave connections and connection_params as they were.
C24_UnknownIdRejected ==
    [][CallOnUnregistered =>
          /\ handled'.ended = "raised"
          /\ handled'.value = NotFound(handled'.id)
          /\ connections' = connections
          /\ connection_params' = connection_params]_vars

\* the id was drawn and is in neither registry: its connection was closed
IsClosed(id) ==
    /\ id \in 1..uuids
    /\ id \notin DOMAIN connections
    /\ id \notin DOMAIN connection_params

\* the same of the state a step leads to
IsClosedAfter(id) ==
    /\ id \in 1..uuids'
    /\ id \notin DOMAIN connections'
    /\ id \notin DOMAIN connection_params'

\* the entries of the dict d other than that of id are the same in e
OthersKept(d, e, id) ==
    \A j \in (DOMAIN d \cup DOMAIN e) \ {id} :
        j \in DOMAIN d /\ j \in DOMAIN e /\ d[j] = e[j]

\* the elements of the list l
Elements(l) == {l[i] : i \in 1..Len(l)}

\* C25: a close_connection that succeeds takes the id out of connections and
\* connection_params and leaves every other entry as it was; from then on
\* the id stays out, list_connections does not list it, and execute_query
\* and close_connection on it raise "Connection <id> not found".
C25_ClosedStaysClosed ==
    [][/\ (handled'.op = "close_connection" /\ handled'.ended = "returned") =>
            /\ handled'.id \in DOMAIN connections
            /\ IsClosedAfter(handled'.id)
            /\ OthersKept(connections, connections', handled'.id)
            /\ OthersKept(connection_params, connection_params', handled'.id)
       /\ \A id \in ConnectionIds :
            IsClosed(id) =>
                /\ IsClosedAfter(id)
                /\ (handled'.op \in {"execute_query", "close_connection"}
                       /\ handled'.id = id) =>
                      (handled'.ended = "raised" /\ handled'.value = NotFound(id))
                /\ handled'.op = "list_connections" =>
                      id \notin Elements(handled'.value)]_vars

C25_Witness ==
    /\ handled.op = "close_connection"
    /\ handled.ended = "raised"
    /\ handled.id = 1
    /\ handled.value = NotFound(1)
    /\ IsClosed(1)
    /\ 2 \in DOMAIN connections

\* C27: whatever calls were made and however they ended, connections and
\* connection_params hold the same ids.
C27_RegistriesAgree == DOMAIN connections = DOMAIN connection_params

\* the body is an object in which connection_id or query is missing or empty
LacksField(data) ==
    /\ data # Null
    /\ \/ data.connection_id \in {Null, String(<<>>)}
       \/ data.query \in {Null, String(<<>>)}

\* one step of /v1/query on a body that is an object: nothing is asked of the
\* connection handler before translate has returned, the statement that
\* reaches the backend and the one in the answer are translate(query), and an
\* exception raised by translate or by the execution is answered 500
QueryStepInOrder ==
    /\ app_pc \in {"received", "translate"} =>
         /\ UNCHANGED handler_vars
         /\ app_pc' = "execute" =>
               /\ pc = "returned"
               /\ app_translated' = TranslateOf(request.query.text)
    /\ (app_pc = "translate" /\ pc = "idle" /\ request.query.is # "string") =>
         /\ response'.status = 500
         /\ ~response'.success
         /\ app_pc' = "idle"
    /\ app_pc = "execute" =>
         /\ handled'.op = "execute_query"
         /\ handled'.id = request.connection_id.id
         /\ (handled'.id \in DOMAIN connections /\ backend_did'.at # "cursor") =>
               backend_did'.statement = app_translated
         /\ handled'.ended = "raised" => (response'.status = 500 /\ ~response'.success)
         /\ handled'.ended = "returned" =>
               /\ response'.status = 200
               /\ response'.success
               /\ response'.result = handled'.value
               /\ response'.translated_query = app_translated

\* the answer 400 that leaves the request untranslated and unexecuted
Answered400 ==
    /\ response' = Failure(400, <<"connection_id and query are required">>)
    /\ app_pc' = "idle"
    /\ UNCHANGED call_vars
    /\ UNCHANGED handler_vars

\* what /v1/query does keep: the order of translation and execution, the 500
\* answers, and the 400 answer for an object that lacks one of the two fields
ObjectBodiesHandled ==
    [][/\ QueryStepInOrder
       /\ (app_pc = "received" /\ LacksField(request)) => Answered400]_vars

\* C23: in /v1/query translation precedes execution and the statement that
\* reaches the backend is translate(query); every request without
\* connection_id or without query, a body with no fields at all included, is
\* answered 400 and is neither translated nor executed; an exception raised by
\* translate or by the execution is answered 500 with success false.
C23_TranslateThenExecute ==
    [][/\ QueryStepInOrder
       /\ (app_pc = "received" /\ (request = Null \/ LacksField(request))) =>
            Answered400]_vars

\* a translated statement has reached the backend and was answered 200
TranslatedReachedBackend ==
    /\ app_pc = "idle"
    /\ handled.op = "execute_query"
    /\ handled.ended = "returned"
    /\ backend_did.at = "rows"
    /\ response.status = 200
    /\ request.query = String(<<"S","E","L","E","C","T"," ","T","O","P"," ","5"," ","*"," ","F","R","O","M"," ","t","a","b","l","e">>)
    /\ response.translated_query = <<"S","E","L","E","C","T"," ","L","I","M","I","T"," ","5"," ","*"," ","F","R","O","M"," ","T","A","B","L","E">>
    /\ backend_did.statement = <<"S","E","L","E","C","T"," ","L","I","M","I","T"," ","5"," ","*"," ","F","R","O","M"," ","T","A","B","L","E">>

\* a step in which a call of the client has gone through _get_connection
GetConnectionStep == client_pc = "idle" /\ client_did'.op = "_get_connection"

\* the step has made the connection handler create a connection
CreateArrived == uuids' = uuids + 1

\* C26: the client opens its connection lazily and holds at most one: a call
\* made while connection_id is None sends one POST /v1/connection and stores
\* the id of the answer, or stays without id when the answer is not 200 or
\* does not arrive; a call made while an id is stored sends none and leaves
\* everything as it is; the query of the call carries the stored id; the
\* query and the end of the `with` block neither create nor close a
\* connection; and a stored id is given up in close() only, for None.
C26_OneLazyConnection ==
    [][/\ GetConnectionStep =>
            IF client_connection_id = NoConnection
            THEN /\ client_did'.posts = 1
                 /\ uuids' \in {uuids, uuids + 1}
                 /\ IF CreateArrived /\ response'.status = 200
                    THEN /\ client_connection_id' = response'.connection_id
                         /\ client_connection_id' = uuids'
                         /\ client_connection_id' \notin DOMAIN connections
                         /\ DOMAIN connections' =
                               DOMAIN connections \cup {client_connection_id'}
                         /\ client_pc' \in ClientCalls
                    ELSE /\ client_connection_id' = NoConnection
                         /\ client_pc' = "idle"
                         /\ client_did'.ended = "raised"
                         /\ UNCHANGED connections
            ELSE /\ client_did'.posts = 0
                 /\ client_pc' \in ClientCalls
                 /\ UNCHANGED <<client_connection_id, handler_vars, app_vars>>
       /\ client_pc # "idle" =>
            UNCHANGED <<client_connection_id, uuids, connections, connection_params>>
       /\ (client_pc \in ClientCalls /\ app_pc' = "received") =>
            request'.connection_id = IdString(client_connection_id)
       /\ client_pc = "__exit__" =>
            /\ UNCHANGED <<handler_vars, app_vars>>
            /\ client_pc' = "idle"
       /\ client_connection_id' # client_connection_id =>
            \/ GetConnectionStep /\ client_connection_id = NoConnection
            \/ /\ client_did'.op = "close"
               /\ client_connection_id' = NoConnection]_vars

\* the client has queried, closed, and queried again on a fresh connection,
\* which is still open after the `with` block of the query was left
C26_Witness ==
    /\ client_connection_id = 2
    /\ client_pc = "idle"
    /\ client_did = ClientDid("__exit__", 0, "returned")
    /\ DOMAIN connections = {2}
    /\ response.status = 200
    /\ request.connection_id = IdString(2)

----------------------------------------------------------------------------
(* Property C21 of concurrent calls of translate.                          *)

\* thread t returns from translate in this step
ThreadReturns(t) == thread[t].pc = "identifiers" /\ thread'[t].pc = "returned"

\* C21: whatever way the steps of concurrent translate calls on the shared
\* translator interleave, no step changes data_type_mappings or
\* function_mappings, no step of a thread changes the locals of another
\* thread's call, and each call returns the text translate returns for its
\* query when it runs alone.
C21_ConcurrentCallsArePure ==
    [][/\ sql_translator' = sql_translator
       /\ sql_translator = Lexicons
       /\ \A t \in Threads :
             /\ thread'[t] # thread[t] =>
                   \A u \in Threads \ {t} : thread'[u] = thread[u]
             /\ ThreadReturns(t) =>
                   thread'[t].result = TranslateOf(thread[t].original_query)]_vars

\* both threads have returned from calls whose steps were interleaved: thread
\* 1 wrote before and after a record of thread 2
C21_Witness ==
    /\ thread[1].pc = "returned"
    /\ thread[2].pc = "returned"
    /\ thread[1].original_query = <<"c"," ","F","L","O","A","T","8">>
    /\ thread[2].original_query = <<"s","e","l","e","c","t"," ","u","u","i","d","_","s","t","r","i","n","g","(",")">>
    /\ thread[1].result = <<"C"," ","D","O","U","B","L","E"," ","P","R","E","C","I","S","I","O","N"," ","P","R","E","C","I","S","I","O","N">>
    /\ thread[2].result = <<"S","E","L","E","C","T"," ","g","e","n","_","r","a","n","d","o","m","_","u","u","i","d","(",")">>
    /\ \E i, j, k \in 1..Len(written) :
          /\ i < j /\ j < k
          /\ written[i][1] = 1 /\ written[j][1] = 2 /\ written[k][1] = 1

----------------------------------------------------------------------------
(* Properties C28 and C29 of the lexicons and of translate on its own      *)
(* output.                                                                 *)

\* data_type_mappings[k]
TargetOf(k) ==
    data_type_mappings[CHOOSE n \in 1..Len(data_type_mappings) :
                          data_type_mappings[n][1] = k][2]

\* the type pass is given a key of data_type_mappings and nothing else
PassOnKeyAlone ==
    /\ pc = "types again"
    /\ query = original_query
    /\ query \in TypeKeys

\* the pass on every key but FLOAT8 gives the key's target
OtherKeysGiveTheirTarget ==
    [][(PassOnKeyAlone /\ query # <<"F","L","O","A","T","8">>) => query' = TargetOf(query)]_vars

\* C28: the type pass applied to a key of data_type_mappings alone returns
\* the key's target: no later entry of the pass matches inside the target
\* that an earlier entry has written.
C28_KeyGivesItsTarget ==
    [][PassOnKeyAlone => query' = TargetOf(query)]_vars

\* C29: translate applied to the text it has returned returns that text
\* again, so a query that was translated before it is sent to /v1/query
\* reaches the backend as the caller had it.
C29_TranslateIsIdempotent ==
    [][ReturnStep => TranslateOf(result') = result']_vars

====
